---------------------------- MODULE Spec2Model ----------------------------
(***************************************************************************)
(* Model of the layered animation data-block of source/blender/animrig:    *)
(* Outputs and the assignment of Animations to IDs (animation.cc), Layers, *)
(* Strips, channels and F-Curves (animation.cc), and the evaluation and    *)
(* blending of layers (evaluation.cc).                                     *)
(*                                                                         *)
(* Every public function is one action, except where its steps matter:     *)
(* evaluate_animation() takes one step per layer, and output_add() called  *)
(* by two threads takes one step per access to the shared counter.         *)
(* The parts of the data-block do not touch each other's state, and each   *)
(* is explored by a specification of its own:                              *)
(*   Spec        Outputs and the assignment of Animations to IDs           *)
(*   SpecNames   the names of the Outputs of one Animation                  *)
(*   SpecLayers  adding and removing Layers and Strips                     *)
(*   SpecKeys    the channels and keys of one keyframe Strip               *)
(*   SpecEval    evaluate_animation(), one step per layer                  *)
(*   SpecBlend   blend_layer_results() on every input within the bounds    *)
(*   SpecSecondOutput  evaluate_animation() for the second Output          *)
(*   SpecStrip   the frame range of one Strip                              *)
(*   SpecThreads output_add() called by two threads                        *)
(*   SpecEvalCalls  evaluate_animation(), one step per call                *)
(*   SpecStripProperties  the frame range written as properties            *)
(*   SpecFree    removing Layers and Strips that hold channels             *)
(*   SpecOutputsOfTwo  two Animations that both have Outputs               *)
(***************************************************************************)
EXTENDS Integers, Sequences, FiniteSets, TLC

VARIABLES
  outputs,                   \* Animation::output_array, per Animation
  last_output_stable_index,  \* Animation::last_output_stable_index
  id_us,                     \* Animation::id.us, the user count
  adt,                       \* AnimData of every ID (the side-table)
  layer_array,               \* Animation::layer_array, per Animation
  layer_active_index,        \* Animation::layer_active_index
  AnimationLayer,            \* the AnimationLayer struct at each address
  AnimationStrip,            \* the AnimationStrip struct at each address
  allocated,                 \* the addresses of the live Layers and Strips
  freed,                     \* the addresses of the freed Layers and Strips
  object,                    \* the animated object's properties
  eval,                      \* the locals of a running evaluate_animation()
  blend_call,                \* one call of blend_layer_results()
  strip_call,                \* a Strip and the last call of one of its functions
  output_add_call            \* the locals of each thread's output_add()

outputVars == <<outputs, last_output_stable_index, id_us, adt>>
layerVars ==
  <<layer_array, layer_active_index, AnimationLayer, AnimationStrip, allocated,
    freed>>
evalVars == <<object, eval, blend_call, strip_call, output_add_call>>
vars == <<outputVars, layerVars, evalVars>>

---------------------------------------------------------------------------
(* Bounds of the model. *)

\* Most Outputs added to one Animation.
MaxOutputs == 2

\* Most Layers ever allocated, over all Animations.
MaxLayers == 3

\* Most Strips ever allocated, over all Layers.
MaxStrips == 3

\* Most F-Curves of one keyframe Strip, over all its channel groups.
MaxFCurves == 2

\* Most Layers, and most Strips of one Layer, of an Animation that is
\* evaluated.
MaxEvalLayers == 2
MaxEvalStrips == 2

---------------------------------------------------------------------------
(* The universe: Animations, IDs and names. *)

\* The Animation data-blocks (the test fixture's `anim` and `other_anim`).
Anims == {"anim", "other_anim"}

\* adt->animation == nullptr.
NoAnim == "nullptr"

\* The IDs that calls are made with. "anim_id" is an ID of type ID_AN, which
\* has IDTYPE_FLAGS_NO_ANIMDATA and so can never have an AnimData.
Objects == {"cube", "mesh", "anim_id"}

\* GS(id->name): the ID type code in the first two bytes of the name.
GS(o) ==
  CASE o = "cube" -> 16975      \* 'O','B'
    [] o = "mesh" -> 17741      \* 'M','E'
    [] o = "anim_id" -> 20033   \* 'A','N'

\* A name is <<stem, number>>: "stem" for number 0 and "stem.NNN" otherwise,
\* the split that BLI_string_split_name_number() makes.
EmptyName == <<"", 0>>

\* id->name, with its two type bytes.
IdName(o) ==
  CASE o = "cube" -> <<"OBCube", 0>>
    [] o = "mesh" -> <<"MEMesh", 0>>
    [] o = "anim_id" -> <<"ANAnim", 0>>

\* The names callers pass to output_name_set(): under Spec, and the wider
\* choice of SpecNames (the empty name, a name that already ends in a number).
InputNames == {<<"OBCube", 0>>}
RichNames == {EmptyName, <<"OBCube", 0>>, <<"OBCube", 1>>}

\* Only `anim` is given Outputs; `other_anim` is the Animation an ID may
\* already be assigned to.
OutputCap(a) == IF a = "anim" THEN MaxOutputs ELSE 0

\* Whether the ID type can have an AnimData (id_can_have_animdata()).
id_can_have_animdata(o) == GS(o) # 20033

Min(S) == CHOOSE x \in S : \A y \in S : x <= y

---------------------------------------------------------------------------
(* The data model. *)

\* MEM_new<AnimationOutput>: zero-initialised.
NewOutput == [stable_index |-> 0, name |-> EmptyName, idtype |-> 0]

\* A zero-initialised AnimData, also standing for "no AnimData yet".
NoAnimData ==
  [exists |-> FALSE, animation |-> NoAnim, output_stable_index |-> 0,
   output_name |-> EmptyName]

\* The state the functions of animation.cc read and write, as one value, so
\* that a function can call another and go on from the state it left.
State ==
  [outputs |-> outputs, last_output_stable_index |-> last_output_stable_index,
   id_us |-> id_us, adt |-> adt]

\* BKE_animdata_from_id(): the AnimData, if the ID has one.
BKE_animdata_from_id(st, o) == st.adt[o]

\* BKE_animdata_ensure_id(): create the AnimData when the ID can have one.
BKE_animdata_ensure_id(st, o) ==
  IF id_can_have_animdata(o)
    THEN [st EXCEPT !.adt[o].exists = TRUE]
    ELSE st

\* An Output is referred to by its position in output_array (Outputs are
\* never removed or reordered); 0 is nullptr.
NullOutput == 0

\* Animation::output_for_stable_index(): the first Output with the index.
output_for_stable_index(st, a, stable_index) ==
  LET hits == {i \in 1..Len(st.outputs[a]) :
                 st.outputs[a][i].stable_index = stable_index}
  IN IF hits = {} THEN NullOutput ELSE Min(hits)

\* Animation::output_find_by_name(): the first Output with the name.
output_find_by_name(st, a, name) ==
  LET hits == {i \in 1..Len(st.outputs[a]) : st.outputs[a][i].name = name}
  IN IF hits = {} THEN NullOutput ELSE Min(hits)

\* Output::is_suitable_for().
is_suitable_for(out, o) == out.idtype = 0 \/ out.idtype = GS(o)

\* A slip of output_allocate_(): the index is taken before the increment.
output_allocate_stale(st, a) ==
  [st EXCEPT !.last_output_stable_index[a] = @ + 1,
             !.outputs[a] = Append(@, [NewOutput EXCEPT
                 !.stable_index = st.last_output_stable_index[a]])]

\* Animation::output_allocate_() and the append of Animation::output_add().
output_add(st, a) ==
  LET incremented == st.last_output_stable_index[a] + 1
  IN [st EXCEPT !.last_output_stable_index[a] = incremented,
                !.outputs[a] = Append(@, [NewOutput EXCEPT
                    !.stable_index = incremented])]

\* A slip of check_name_is_used: the Output being renamed is compared against
\* only the first Output of the Animation.
check_name_is_used_first_only(st, a, i, name) ==
  Len(st.outputs[a]) > 0 /\ 1 # i /\ st.outputs[a][1].name = name

\* The check_name_is_used lambda of anim_output_name_ensure_unique().
check_name_is_used(st, a, i, name) ==
  \E j \in 1..Len(st.outputs[a]) : j # i /\ st.outputs[a][j].name = name

\* BLI_uniquename_cb(check, arg, "", '.', name, sizeof(name)): an unused name
\* stays; otherwise the number after the delimiter is incremented until the
\* name is unused.
BLI_uniquename_cb(st, a, i, name) ==
  IF ~check_name_is_used(st, a, i, name) THEN name
  ELSE LET unused == {n \in (name[2] + 1)..(name[2] + Len(st.outputs[a]) + 1) :
                        ~check_name_is_used(st, a, i, <<name[1], n>>)}
       IN <<name[1], Min(unused)>>

\* Animation::output_name_set() with anim_output_name_ensure_unique().
output_name_set(st, a, i, new_name) ==
  [st EXCEPT !.outputs[a][i].name = BLI_uniquename_cb(st, a, i, new_name)]

\* A slip of Output::assign_id(): the type of the ID is taken over without
\* the check of is_suitable_for().
Output_assign_id_retyping(st, a, i, o) ==
  IF ~id_can_have_animdata(o)
    THEN [st |-> st, ret |-> FALSE]
  ELSE LET ensured == BKE_animdata_ensure_id(st, o)
           typed == [ensured EXCEPT !.outputs[a][i].idtype = GS(o)]
       IN [st |-> [typed EXCEPT !.adt[o].output_stable_index =
                                    typed.outputs[a][i].stable_index],
           ret |-> TRUE]

\* Output::assign_id(): returns the state and the return value.
Output_assign_id(st, a, i, o) ==
  IF ~is_suitable_for(st.outputs[a][i], o)
    THEN [st |-> st, ret |-> FALSE]
  ELSE IF ~id_can_have_animdata(o)
    THEN [st |-> st, ret |-> FALSE]
  ELSE LET ensured == BKE_animdata_ensure_id(st, o)
           typed == IF ensured.outputs[a][i].idtype = 0
                      THEN [ensured EXCEPT !.outputs[a][i].idtype = GS(o)]
                      ELSE ensured
       IN [st |-> [typed EXCEPT !.adt[o].output_stable_index =
                                    typed.outputs[a][i].stable_index],
           ret |-> TRUE]

\* A slip of the tail of Animation::assign_id(): id_us_plus() is left out.
assign_id_finish_without_user(st, a, o) ==
  [st EXCEPT !.adt[o].animation = a]

\* The tail of Animation::assign_id(): adt->animation = this; id_us_plus().
assign_id_finish(st, a, o) ==
  [st EXCEPT !.adt[o].animation = a, !.id_us[a] = @ + 1]

\* A slip of Animation::assign_id(): the Output is bound before the check
\* that the ID has no Animation yet.
Animation_assign_id_bind_first(st, a, i, o) ==
  IF ~id_can_have_animdata(o) THEN [st |-> st, ret |-> FALSE]
  ELSE LET ensured == BKE_animdata_ensure_id(st, o)
           bound == IF i # NullOutput THEN Output_assign_id(ensured, a, i, o)
                    ELSE [st |-> ensured, ret |-> TRUE]
       IN IF ensured.adt[o].animation # NoAnim \/ ~bound.ret
            THEN [st |-> bound.st, ret |-> FALSE]
            ELSE [st |-> assign_id_finish(bound.st, a, o), ret |-> TRUE]

\* Animation::assign_id(output, animated_id).
Animation_assign_id(st, a, i, o) ==
  IF ~id_can_have_animdata(o) THEN [st |-> st, ret |-> FALSE]
  ELSE LET ensured == BKE_animdata_ensure_id(st, o)
       IN IF ensured.adt[o].animation # NoAnim
            THEN [st |-> ensured, ret |-> FALSE]
          ELSE IF i # NullOutput
            THEN LET bound == Output_assign_id(ensured, a, i, o)
                     named == IF bound.st.outputs[a][i].name = EmptyName
                                THEN output_name_set(bound.st, a, i, IdName(o))
                                ELSE bound.st
                     synced == [named EXCEPT !.adt[o].output_name =
                                                named.outputs[a][i].name]
                 IN IF ~bound.ret
                      THEN [st |-> bound.st, ret |-> FALSE]
                      ELSE [st |-> assign_id_finish(synced, a, o), ret |-> TRUE]
          ELSE LET unbound == [ensured EXCEPT !.adt[o].output_stable_index = 0]
               IN [st |-> assign_id_finish(unbound, a, o), ret |-> TRUE]

\* A slip of Animation::unassign_id(): the recorded Output name is left as
\* it was.
Animation_unassign_id_without_refresh(st, a, o) ==
  [st EXCEPT !.id_us[a] = @ - 1, !.adt[o].animation = NoAnim]

\* Animation::assign_id(output, animated_id) on Animation `a` with the
\* Output at position i of Animation `b`: the function takes any Output and
\* does not look for it in its own array. output_name_set() compares the
\* name with the Outputs of `a` other than the Output itself.
Animation_assign_id_of(st, a, b, i, o) ==
  IF ~id_can_have_animdata(o) THEN [st |-> st, ret |-> FALSE]
  ELSE LET ensured == BKE_animdata_ensure_id(st, o)
           bound == Output_assign_id(ensured, b, i, o)
           own == IF b = a THEN i ELSE NullOutput
           named == IF bound.st.outputs[b][i].name = EmptyName
                      THEN [bound.st EXCEPT !.outputs[b][i].name =
                              BLI_uniquename_cb(bound.st, a, own, IdName(o))]
                      ELSE bound.st
           synced == [named EXCEPT !.adt[o].output_name =
                                      named.outputs[b][i].name]
       IN IF ensured.adt[o].animation # NoAnim
            THEN [st |-> ensured, ret |-> FALSE]
          ELSE IF ~bound.ret
            THEN [st |-> bound.st, ret |-> FALSE]
          ELSE [st |-> assign_id_finish(synced, a, o), ret |-> TRUE]

\* Animation::unassign_id(animated_id); the ID must be assigned to `a`.
Animation_unassign_id(st, a, o) ==
  LET i == output_for_stable_index(st, a, st.adt[o].output_stable_index)
      refreshed == IF i # NullOutput
                     THEN [st EXCEPT !.adt[o].output_name = st.outputs[a][i].name]
                     ELSE st
  IN [refreshed EXCEPT !.id_us[a] = @ - 1, !.adt[o].animation = NoAnim]

\* A slip of find_suitable_output_for(): the recorded stable index is used
\* whatever Animation the ID is assigned to.
find_suitable_output_for_any_index(st, a, o) ==
  LET a_adt == BKE_animdata_from_id(st, o)
      by_index == IF a_adt.exists
                    THEN output_for_stable_index(st, a, a_adt.output_stable_index)
                    ELSE NullOutput
      by_adt_name == IF a_adt.exists /\ a_adt.output_name # EmptyName
                       THEN output_find_by_name(st, a, a_adt.output_name)
                       ELSE NullOutput
      by_id_name == output_find_by_name(st, a, IdName(o))
      ok(i) == i # NullOutput /\ is_suitable_for(st.outputs[a][i], o)
  IN IF ok(by_index) THEN by_index
     ELSE IF ok(by_adt_name) THEN by_adt_name
     ELSE IF ok(by_id_name) THEN by_id_name
     ELSE NullOutput

\* Animation::find_suitable_output_for(animated_id).
find_suitable_output_for(st, a, o) ==
  LET a_adt == BKE_animdata_from_id(st, o)
      by_index == IF a_adt.exists /\ a_adt.animation = a
                    THEN output_for_stable_index(st, a, a_adt.output_stable_index)
                    ELSE NullOutput
      by_adt_name == IF a_adt.exists /\ a_adt.output_name # EmptyName
                       THEN output_find_by_name(st, a, a_adt.output_name)
                       ELSE NullOutput
      by_id_name == output_find_by_name(st, a, IdName(o))
      ok(i) == i # NullOutput /\ is_suitable_for(st.outputs[a][i], o)
  IN IF ok(by_index) THEN by_index
     ELSE IF ok(by_adt_name) THEN by_adt_name
     ELSE IF ok(by_id_name) THEN by_id_name
     ELSE NullOutput

\* get_animation(animated_id).
get_animation(st, o) ==
  IF ~st.adt[o].exists THEN NoAnim ELSE st.adt[o].animation

\* unassign_animation(animated_id).
unassign_animation(st, o) ==
  IF get_animation(st, o) = NoAnim THEN st
  ELSE Animation_unassign_id(st, get_animation(st, o), o)

\* A slip of assign_animation(): an Output is created when none is suitable.
assign_animation_creating(st, a, o) ==
  LET unassigned == unassign_animation(st, o)
      found == find_suitable_output_for(unassigned, a, o)
      grown == IF found = NullOutput /\ Len(unassigned.outputs[a]) < MaxOutputs
                 THEN output_add(unassigned, a) ELSE unassigned
      out == IF found = NullOutput /\ Len(unassigned.outputs[a]) < MaxOutputs
               THEN Len(grown.outputs[a]) ELSE found
  IN Animation_assign_id(grown, a, out, o)

\* assign_animation(anim, animated_id).
assign_animation(st, a, o) ==
  LET unassigned == unassign_animation(st, o)
      found == find_suitable_output_for(unassigned, a, o)
  IN Animation_assign_id(unassigned, a, found, o)

---------------------------------------------------------------------------
(* Layers and Strips. *)

\* A Layer or a Strip is referred to by its address; 0 is nullptr.
LayerPtrs == 1..MaxLayers
StripPtrs == 1..MaxStrips

\* std::numeric_limits<float>::infinity().
infinity == 1000

\* A float is a multiple of 1/Unit; Unit stands for 1.0f.
Unit == 4

\* The name layer_add() is called with.
LayerNames == {"layer"}

\* DNA_struct_default_alloc(AnimationLayer).
DefaultLayer ==
  [name |-> "", influence |-> Unit, mix_mode |-> "OVERRIDE", strip_array |-> <<>>]

\* MEM_new<KeyframeAnimationStrip>() with the default AnimationStrip fields:
\* an infinite Strip without channels.
DefaultStrip ==
  [type |-> "ANIM_STRIP_TYPE_KEYFRAME", frame_start |-> -infinity,
   frame_end |-> infinity, frame_offset |-> 0,
   channels_for_output_array |-> <<>>]

\* The Layers and Strips as one value, for the functions of animation.cc.
LayerState ==
  [layer_array |-> layer_array, layer_active_index |-> layer_active_index,
   AnimationLayer |-> AnimationLayer, AnimationStrip |-> AnimationStrip,
   allocated |-> allocated, freed |-> freed]

\* memmove of [index+1:end] to [index:end-1] and shrink_array() by one;
\* index counts from 0.
shrink_array(array, index) ==
  [i \in 1..(Len(array) - 1) |-> IF i <= index THEN array[i] ELSE array[i + 1]]

\* The allocator: the lowest address not handed out before. No address is
\* handed out twice, so a pointer kept to a removed Layer or Strip is the
\* address of no later one.
MEM_new(ptrs, used) == Min(ptrs \ used)

\* animationlayer_alloc(): a Layer at a free address.
animationlayer_alloc(ls, p) ==
  [ls EXCEPT !.allocated.layers = @ \cup {p}, !.AnimationLayer[p] = DefaultLayer]

\* animationstrip_alloc_infinite(): a Strip at a free address.
animationstrip_alloc_infinite(ls, p) ==
  [ls EXCEPT !.allocated.strips = @ \cup {p}, !.AnimationStrip[p] = DefaultStrip]

\* Animation::layer_add(name); the new Layer is at address p.
layer_add(ls, a, p, name) ==
  LET alloc == animationlayer_alloc(ls, p)
      named == [alloc EXCEPT !.AnimationLayer[p].name = name]
      grown == [named EXCEPT !.layer_array[a] = Append(@, p)]
  IN [grown EXCEPT !.layer_active_index[a] = Len(grown.layer_array[a]) - 1]

\* A slip of find_layer_index(): a Layer that is not found counts as the last.
find_layer_index_last(ls, a, l) ==
  LET hits == {i \in 1..Len(ls.layer_array[a]) : ls.layer_array[a][i] = l}
  IN IF hits = {} THEN Len(ls.layer_array[a]) - 1 ELSE Min(hits) - 1

\* Animation::find_layer_index(): the index, from 0, or -1.
find_layer_index(ls, a, l) ==
  LET hits == {i \in 1..Len(ls.layer_array[a]) : ls.layer_array[a][i] = l}
  IN IF hits = {} THEN -1 ELSE Min(hits) - 1

\* Layer::find_strip_index(): the index, from 0, or -1.
find_strip_index(ls, l, s) ==
  LET strips == ls.AnimationLayer[l].strip_array
      hits == {i \in 1..Len(strips) : strips[i] = s}
  IN IF hits = {} THEN -1 ELSE Min(hits) - 1

\* BKE_animation_strip_free_data(): the channels of a keyframe Strip.
BKE_animation_strip_free_data(ls, s) ==
  [ls EXCEPT !.AnimationStrip[s].channels_for_output_array = <<>>]

\* MEM_delete(&strip): the struct is freed and not what it points to, so at
\* a freed address the channel groups are those that were never freed.
MEM_delete_strip(ls, s) ==
  [ls EXCEPT !.allocated.strips = @ \ {s}, !.freed.strips = @ \cup {s}]

\* MEM_delete(&layer): likewise, the Strips at a freed address are those
\* that were never freed.
MEM_delete_layer(ls, l) ==
  [ls EXCEPT !.allocated.layers = @ \ {l}, !.freed.layers = @ \cup {l}]

\* BKE_animation_layer_free_data(): every Strip of the Layer, with its data.
RECURSIVE BKE_animation_layer_free_data(_, _)
BKE_animation_layer_free_data(ls, l) ==
  LET strips == ls.AnimationLayer[l].strip_array
  IN IF strips = <<>> THEN ls
     ELSE LET first_freed == MEM_delete_strip(
                         BKE_animation_strip_free_data(ls, Head(strips)),
                         Head(strips))
          IN BKE_animation_layer_free_data(
               [first_freed EXCEPT
                  !.AnimationLayer[l].strip_array = Tail(strips)], l)

\* A slip of Animation::layer_remove(): the array shrinks without the move,
\* so it is the last Layer that leaves the array.
layer_remove_without_move(ls, a, l) ==
  LET layer_index == find_layer_index(ls, a, l)
  IN IF layer_index < 0 THEN [st |-> ls, ret |-> FALSE]
     ELSE LET shrunk == [ls EXCEPT !.layer_array[a] =
                            shrink_array(@, Len(ls.layer_array[a]) - 1)]
          IN [st |-> MEM_delete_layer(
                       BKE_animation_layer_free_data(shrunk, l), l),
              ret |-> TRUE]

\* Animation::layer_remove(layer_to_remove).
layer_remove(ls, a, l) ==
  LET layer_index == find_layer_index(ls, a, l)
  IN IF layer_index < 0 THEN [st |-> ls, ret |-> FALSE]
     ELSE LET shrunk == [ls EXCEPT !.layer_array[a] =
                            shrink_array(@, layer_index)]
          IN [st |-> MEM_delete_layer(
                       BKE_animation_layer_free_data(shrunk, l), l),
              ret |-> TRUE]

\* Layer::strip_add(type); the new Strip is at address p.
strip_add(ls, l, p) ==
  LET alloc == animationstrip_alloc_infinite(ls, p)
  IN [alloc EXCEPT !.AnimationLayer[l].strip_array = Append(@, p)]

\* A slip of Layer::strip_remove(): the Strip is deleted with its data.
strip_remove_without_free_data(ls, l, s) ==
  LET strip_index == find_strip_index(ls, l, s)
  IN IF strip_index < 0 THEN [st |-> ls, ret |-> FALSE]
     ELSE LET shrunk == [ls EXCEPT !.AnimationLayer[l].strip_array =
                            shrink_array(@, strip_index)]
          IN [st |-> MEM_delete_strip(shrunk, s), ret |-> TRUE]

\* Layer::strip_remove(strip_to_remove).
strip_remove(ls, l, s) ==
  LET strip_index == find_strip_index(ls, l, s)
  IN IF strip_index < 0 THEN [st |-> ls, ret |-> FALSE]
     ELSE LET shrunk == [ls EXCEPT !.AnimationLayer[l].strip_array =
                            shrink_array(@, strip_index)]
          IN [st |-> MEM_delete_strip(
                       BKE_animation_strip_free_data(shrunk, s), s),
              ret |-> TRUE]

---------------------------------------------------------------------------
(* The channels and keys of a keyframe Strip. *)

\* The Outputs, by stable index, that keys are inserted for.
KeyOutputs == {1, 2}

\* The properties that are keyed: (rna_path, array_index).
KeyProps == {<<"location", 0>>, <<"location", 1>>, <<"rotation_euler", 0>>}

\* The times and values of the keys.
KeyTimes == {1, 2}
KeyValues == {Unit}

\* An F-Curve is referred to by the position of its channel group in
\* channels_for_output_array and its position in fcurve_array; nullptr:
NullFCurve == <<0, 0>>

\* BKE_fcurve_create(): an F-Curve without path, flags or keys.
BKE_fcurve_create ==
  [rna_path |-> "", array_index |-> 0, flag |-> {}, bezt |-> <<>>]

\* The number of F-Curves of a Strip.
RECURSIVE fcurve_count(_)
fcurve_count(channels) ==
  IF channels = <<>> THEN 0
  ELSE Len(Head(channels).fcurve_array) + fcurve_count(Tail(channels))

\* KeyframeStrip::chans_for_out(output_stable_index): the position of the
\* first channel group of the Output, or 0.
chans_for_out(ls, s, output_stable_index) ==
  LET channels == ls.AnimationStrip[s].channels_for_output_array
      hits == {g \in 1..Len(channels) :
                 channels[g].output_stable_index = output_stable_index}
  IN IF hits = {} THEN 0 ELSE Min(hits)

\* KeyframeStrip::chans_for_out_add(out): a new, empty channel group.
chans_for_out_add(ls, s, output_stable_index) ==
  [ls EXCEPT !.AnimationStrip[s].channels_for_output_array =
     Append(@, [output_stable_index |-> output_stable_index,
                fcurve_array |-> <<>>])]

\* A slip of fcurve_find(): the F-Curve is looked for in the first channel
\* group, whatever the Output.
fcurve_find_in_first_group(ls, s, output_stable_index, rna_path, array_index) ==
  LET channels == ls.AnimationStrip[s].channels_for_output_array
      fcurves == channels[1].fcurve_array
      hits == {c \in 1..Len(fcurves) :
                 /\ fcurves[c].array_index = array_index
                 /\ fcurves[c].rna_path = rna_path}
  IN IF Len(channels) = 0 \/ channels[1].output_stable_index # output_stable_index
       THEN NullFCurve
     ELSE IF hits = {} THEN NullFCurve
     ELSE <<1, Min(hits)>>

\* KeyframeStrip::fcurve_find(out, rna_path, array_index).
fcurve_find(ls, s, output_stable_index, rna_path, array_index) ==
  LET g == chans_for_out(ls, s, output_stable_index)
      fcurves == ls.AnimationStrip[s].channels_for_output_array[g].fcurve_array
      hits == {c \in 1..Len(fcurves) :
                 /\ fcurves[c].array_index = array_index
                 /\ fcurves[c].rna_path = rna_path}
  IN IF g = 0 THEN NullFCurve
     ELSE IF hits = {} THEN NullFCurve
     ELSE <<g, Min(hits)>>

\* A slip of fcurve_find_or_create(): a new F-Curve gets a new channel group.
fcurve_find_or_create_in_new_group(ls, s, output_stable_index, rna_path, array_index) ==
  LET found == fcurve_find(ls, s, output_stable_index, rna_path, array_index)
      created == [BKE_fcurve_create EXCEPT
                    !.rna_path = rna_path, !.array_index = array_index,
                    !.flag = {"FCURVE_VISIBLE", "FCURVE_SELECTED",
                              "FCURVE_ACTIVE"}]
      grouped == chans_for_out_add(ls, s, output_stable_index)
      g == Len(grouped.AnimationStrip[s].channels_for_output_array)
  IN IF found # NullFCurve THEN [st |-> ls, fcurve |-> found]
     ELSE [st |-> [grouped EXCEPT
                     !.AnimationStrip[s].channels_for_output_array[g]
                        .fcurve_array = Append(@, created)],
           fcurve |-> <<g, 1>>]

\* KeyframeStrip::fcurve_find_or_create(out, rna_path, array_index): the
\* state and the F-Curve.
fcurve_find_or_create(ls, s, output_stable_index, rna_path, array_index) ==
  LET found == fcurve_find(ls, s, output_stable_index, rna_path, array_index)
      created == [BKE_fcurve_create EXCEPT
                    !.rna_path = rna_path, !.array_index = array_index,
                    !.flag = {"FCURVE_VISIBLE", "FCURVE_SELECTED"}]
      grouped == IF chans_for_out(ls, s, output_stable_index) = 0
                   THEN chans_for_out_add(ls, s, output_stable_index)
                   ELSE ls
      g == chans_for_out(grouped, s, output_stable_index)
      fcurves ==
        grouped.AnimationStrip[s].channels_for_output_array[g].fcurve_array
      fcurve == IF Len(fcurves) = 0
                  THEN [created EXCEPT !.flag = @ \cup {"FCURVE_ACTIVE"}]
                  ELSE created
  IN IF found # NullFCurve THEN [st |-> ls, fcurve |-> found]
     ELSE [st |-> [grouped EXCEPT
                     !.AnimationStrip[s].channels_for_output_array[g]
                        .fcurve_array = Append(@, fcurve)],
           fcurve |-> <<g, Len(fcurves) + 1>>]

\* BKE_fcurve_is_keyframable(): the per-curve flag that refuses new keys.
BKE_fcurve_is_keyframable(fcu) == "FCURVE_PROTECTED" \notin fcu.flag

\* insert_vert_fcurve() when it accepts the key: the key at the time is set,
\* replacing a key that is there; the other keys stay.
insert_vert_fcurve(fcu, time, value) ==
  [fcu EXCEPT !.bezt = [t \in (DOMAIN fcu.bezt) \cup {time} |->
                          IF t = time THEN value ELSE fcu.bezt[t]]]

\* KeyframeStrip::keyframe_insert(out, rna_path, array_index, time_value,
\* settings): the state and the F-Curve, nullptr on failure. `accepted` is
\* whether insert_vert_fcurve() returns an index that is not negative.
keyframe_insert(ls, s, output_stable_index, rna_path, array_index, time, value, accepted) ==
  LET ensured == fcurve_find_or_create(ls, s, output_stable_index, rna_path,
                                       array_index)
      g == ensured.fcurve[1]
      c == ensured.fcurve[2]
      fcu == ensured.st.AnimationStrip[s].channels_for_output_array[g]
               .fcurve_array[c]
  IN IF ~BKE_fcurve_is_keyframable(fcu)
       THEN [st |-> ensured.st, fcurve |-> NullFCurve]
     ELSE IF ~accepted
       THEN [st |-> ensured.st, fcurve |-> NullFCurve]
     ELSE [st |-> [ensured.st EXCEPT
                     !.AnimationStrip[s].channels_for_output_array[g]
                        .fcurve_array[c] = insert_vert_fcurve(fcu, time, value)],
           fcurve |-> ensured.fcurve]

---------------------------------------------------------------------------
(* Evaluation: evaluation.cc. *)

\* float multiplication, on multiples of 1/Unit.
fmul(x, y) == (x * y) \div Unit

Max(S) == CHOOSE x \in S : \A y \in S : y <= x

\* eAnimationLayer_MixMode.
MixModes == {"OVERRIDE", "COMBINE", "ADD", "SUBTRACT", "MULTIPLY"}

\* The properties of the animated object that RNA paths resolve to.
ObjProps == {<<"location", 0>>, <<"location", 1>>, <<"rotation_euler", 0>>}

\* An EvaluationResult without entries, and std::optional<EvaluationResult>.
EmptyResult == [key \in {} |-> 0]
nullopt == [has_value |-> FALSE, result |-> EmptyResult]
optional(result) == [has_value |-> TRUE, result |-> result]

\* EvaluationResult::store(): Map::add() keeps the value of a key it has.
EvaluationResult_store(result, key, value) ==
  IF key \in DOMAIN result THEN result
  ELSE [k \in (DOMAIN result) \cup {key} |->
          IF k = key THEN value ELSE result[k]]

\* BKE_animsys_rna_path_resolve(): whether the path is a property of the
\* object; it reads the object only.
BKE_animsys_rna_path_resolve(obj, rna_path, array_index) ==
  <<rna_path, array_index>> \in DOMAIN obj.value

\* BKE_animsys_write_to_rna_path(): the property is set.
BKE_animsys_write_to_rna_path(obj, key, value) ==
  [obj EXCEPT !.value[key] = value, !.written[key] = @ + 1]

\* animsys_write_orig_anim_rna(): the same property of the original ID.
animsys_write_orig_anim_rna(obj, key, value) ==
  IF key \in DOMAIN obj.orig_value
    THEN [obj EXCEPT !.orig_value[key] = value, !.orig_written[key] = @ + 1]
    ELSE obj

\* is_fcurve_evaluatable(): not muted, not disabled, and with keys.
is_fcurve_evaluatable(fcu) ==
  /\ fcu.flag \cap {"FCURVE_MUTED", "FCURVE_DISABLED"} = {}
  /\ DOMAIN fcu.bezt # {}

\* calculate_fcurve(): the value of the F-Curve at the time; here the key at
\* or before the time, and the first key before all keys.
calculate_fcurve(fcu, eval_time) ==
  LET before == {t \in DOMAIN fcu.bezt : t <= eval_time}
  IN IF before # {} THEN fcu.bezt[Max(before)]
     ELSE fcu.bezt[Min(DOMAIN fcu.bezt)]

\* The loop of evaluate_keyframe_strip() over the F-Curves of the group: the
\* object and the result.
RECURSIVE evaluate_fcurves(_, _, _, _)
evaluate_fcurves(obj, fcurves, eval_time, result) ==
  IF fcurves = <<>> THEN [object |-> obj, result |-> result]
  ELSE LET fcu == Head(fcurves)
       IN IF ~is_fcurve_evaluatable(fcu)
            THEN evaluate_fcurves(obj, Tail(fcurves), eval_time, result)
          ELSE IF ~BKE_animsys_rna_path_resolve(obj, fcu.rna_path,
                                                fcu.array_index)
            THEN evaluate_fcurves(obj, Tail(fcurves), eval_time, result)
          ELSE evaluate_fcurves(obj, Tail(fcurves), eval_time,
                 EvaluationResult_store(result,
                   <<fcu.rna_path, fcu.array_index>>,
                   calculate_fcurve(fcu, eval_time)))

\* apply_evaluation_result(): every entry of the result is written.
RECURSIVE apply_evaluation_result(_, _, _)
apply_evaluation_result(obj, evaluation_result, flush_to_original) ==
  IF DOMAIN evaluation_result = {} THEN obj
  ELSE LET key == CHOOSE k \in DOMAIN evaluation_result : TRUE
           written == BKE_animsys_write_to_rna_path(obj, key,
                                                    evaluation_result[key])
           flushed == IF flush_to_original
                        THEN animsys_write_orig_anim_rna(written, key,
                                                         evaluation_result[key])
                        ELSE written
       IN apply_evaluation_result(flushed,
            [k \in (DOMAIN evaluation_result) \ {key} |-> evaluation_result[k]],
            flush_to_original)

\* A slip of evaluate_keyframe_strip(): the values are written to the
\* properties right away, as animsys_evaluate_fcurves() does.
evaluate_keyframe_strip_writing(obj, ls, s, output_index, eval_time) ==
  LET g == chans_for_out(ls, s, output_index)
      r == evaluate_fcurves(obj,
             ls.AnimationStrip[s].channels_for_output_array[g].fcurve_array,
             eval_time, EmptyResult)
  IN IF g = 0 THEN [object |-> obj, result |-> nullopt]
     ELSE [object |-> apply_evaluation_result(r.object, r.result, FALSE),
           result |-> optional(r.result)]

\* evaluate_keyframe_strip(): the object and the optional result.
evaluate_keyframe_strip(obj, ls, s, output_index, eval_time) ==
  LET g == chans_for_out(ls, s, output_index)
      r == evaluate_fcurves(obj,
             ls.AnimationStrip[s].channels_for_output_array[g].fcurve_array,
             eval_time, EmptyResult)
  IN IF g = 0 THEN [object |-> obj, result |-> nullopt]
     ELSE [object |-> r.object, result |-> optional(r.result)]

\* A slip of evaluate_strip(): the Strip is evaluated at the time itself.
evaluate_strip_without_offset(obj, ls, s, output_index, eval_time) ==
  IF ls.AnimationStrip[s].type = "ANIM_STRIP_TYPE_KEYFRAME"
    THEN evaluate_keyframe_strip(obj, ls, s, output_index, eval_time)
    ELSE [object |-> obj, result |-> nullopt]

\* evaluate_strip(): the time is moved by the frame offset of the Strip.
evaluate_strip(obj, ls, s, output_index, eval_time) ==
  IF ls.AnimationStrip[s].type = "ANIM_STRIP_TYPE_KEYFRAME"
    THEN evaluate_keyframe_strip(obj, ls, s, output_index,
                                 eval_time - ls.AnimationStrip[s].frame_offset)
    ELSE [object |-> obj, result |-> nullopt]

\* A slip of Strip::contains_frame(): the last frame is left out.
contains_frame_before_end(strip, frame_time) ==
  strip.frame_start <= frame_time /\ frame_time < strip.frame_end

\* Strip::is_last_frame().
is_last_frame(strip, frame_time) == strip.frame_end = frame_time

\* Strip::resize(frame_start, frame_end); the assertions are its
\* precondition.
resize(strip, frame_start, frame_end) ==
  [strip EXCEPT !.frame_start = frame_start, !.frame_end = frame_end]

\* Strip::contains_frame().
contains_frame(strip, frame_time) ==
  strip.frame_start <= frame_time /\ frame_time <= strip.frame_end

\* A slip of the loop of evaluate_layer(): the result of the first Strip that
\* contains the time is returned, with or without a value.
RECURSIVE evaluate_strips_first_containing(_, _, _, _, _)
evaluate_strips_first_containing(obj, ls, strips, output_index, eval_time) ==
  IF strips = <<>> THEN [object |-> obj, result |-> nullopt]
  ELSE IF ~contains_frame(ls.AnimationStrip[Head(strips)], eval_time)
    THEN evaluate_strips_first_containing(obj, ls, Tail(strips), output_index,
                                          eval_time)
  ELSE evaluate_strip(obj, ls, Head(strips), output_index, eval_time)

\* The loop of evaluate_layer() over the Strips of the Layer.
RECURSIVE evaluate_strips(_, _, _, _, _)
evaluate_strips(obj, ls, strips, output_index, eval_time) ==
  IF strips = <<>> THEN [object |-> obj, result |-> nullopt]
  ELSE IF ~contains_frame(ls.AnimationStrip[Head(strips)], eval_time)
    THEN evaluate_strips(obj, ls, Tail(strips), output_index, eval_time)
  ELSE LET r == evaluate_strip(obj, ls, Head(strips), output_index, eval_time)
       IN IF ~r.result.has_value
            THEN evaluate_strips(r.object, ls, Tail(strips), output_index,
                                 eval_time)
            ELSE r

\* evaluate_layer(): the object and the optional result of the Layer.
evaluate_layer(obj, ls, l, output_index, eval_time) ==
  evaluate_strips(obj, ls, ls.AnimationLayer[l].strip_array, output_index,
                  eval_time)

\* A slip of lerp(): the two values are taken the other way round.
lerp_swapped(t, a, b) == b + fmul(t, a - b)

\* lerp(t, a, b).
lerp(t, a, b) == a + fmul(t, b - a)

\* blend_layer_results(last_result, current_result, current_layer).
blend_layer_results(last_result, current_result, current_layer) ==
  [key \in (DOMAIN last_result) \cup (DOMAIN current_result) |->
     IF key \notin DOMAIN current_result THEN last_result[key]
     ELSE IF key \notin DOMAIN last_result
       THEN fmul(current_result[key], current_layer.influence)
     ELSE CASE current_layer.mix_mode = "OVERRIDE" ->
                 fmul(current_result[key], current_layer.influence)
            [] current_layer.mix_mode = "COMBINE" ->
                 lerp(current_layer.influence, last_result[key],
                      current_result[key])
            [] current_layer.mix_mode = "ADD" ->
                 last_result[key]
                   + fmul(current_result[key], current_layer.influence)
            [] current_layer.mix_mode = "SUBTRACT" ->
                 last_result[key]
                   - fmul(current_result[key], current_layer.influence)
            [] current_layer.mix_mode = "MULTIPLY" ->
                 fmul(last_result[key],
                      fmul(current_result[key], current_layer.influence))]

\* A slip of the loop of evaluate_animation(): the first result is blended
\* onto an empty result, as the later ones are onto the result so far.
evaluate_animation_layer_blending_first(ev, obj, ls, a) ==
  LET l == ls.layer_array[a][ev.layer_index + 1]
      layer == ls.AnimationLayer[l]
      next == [ev EXCEPT !.layer_index = @ + 1]
      r == evaluate_layer(obj, ls, l, ev.output_index, ev.eval_time)
  IN IF layer.influence <= 0 THEN [eval |-> next, object |-> obj]
     ELSE IF ~r.result.has_value THEN [eval |-> next, object |-> r.object]
     ELSE [eval |-> [next EXCEPT !.last_result =
                       optional(blend_layer_results(ev.last_result.result,
                                                    r.result.result, layer))],
           object |-> r.object]

\* A slip of the loop of evaluate_animation(): the result so far is applied
\* after every Layer.
evaluate_animation_layer_applying(ev, obj, ls, a) ==
  LET l == ls.layer_array[a][ev.layer_index + 1]
      layer == ls.AnimationLayer[l]
      next == [ev EXCEPT !.layer_index = @ + 1]
      r == evaluate_layer(obj, ls, l, ev.output_index, ev.eval_time)
      blended == IF ~ev.last_result.has_value THEN r.result
                 ELSE optional(blend_layer_results(ev.last_result.result,
                                                   r.result.result, layer))
  IN IF layer.influence <= 0 THEN [eval |-> next, object |-> obj]
     ELSE IF ~r.result.has_value THEN [eval |-> next, object |-> r.object]
     ELSE [eval |-> [next EXCEPT !.last_result = blended],
           object |-> apply_evaluation_result(r.object, blended.result,
                                              ev.flush_to_original)]

\* A slip of the loop of evaluate_animation(): a Layer without influence is
\* evaluated and blended like the others.
evaluate_animation_layer_without_skip(ev, obj, ls, a) ==
  LET l == ls.layer_array[a][ev.layer_index + 1]
      layer == ls.AnimationLayer[l]
      next == [ev EXCEPT !.layer_index = @ + 1]
      r == evaluate_layer(obj, ls, l, ev.output_index, ev.eval_time)
  IN IF ~r.result.has_value THEN [eval |-> next, object |-> r.object]
     ELSE IF ~ev.last_result.has_value
       THEN [eval |-> [next EXCEPT !.last_result = r.result],
             object |-> r.object]
     ELSE [eval |-> [next EXCEPT !.last_result =
                       optional(blend_layer_results(ev.last_result.result,
                                                    r.result.result, layer))],
           object |-> r.object]

\* A slip of the loop of evaluate_animation(): the first result is blended
\* with the values that the properties have.
evaluate_animation_layer_onto_current(ev, obj, ls, a) ==
  LET l == ls.layer_array[a][ev.layer_index + 1]
      layer == ls.AnimationLayer[l]
      next == [ev EXCEPT !.layer_index = @ + 1]
      r == evaluate_layer(obj, ls, l, ev.output_index, ev.eval_time)
  IN IF layer.influence <= 0 THEN [eval |-> next, object |-> obj]
     ELSE IF ~r.result.has_value THEN [eval |-> next, object |-> r.object]
     ELSE IF ~ev.last_result.has_value
       THEN [eval |-> [next EXCEPT !.last_result =
                         optional([key \in DOMAIN r.result.result |->
                                     lerp(layer.influence, obj.value[key],
                                          r.result.result[key])])],
             object |-> r.object]
     ELSE [eval |-> [next EXCEPT !.last_result =
                       optional(blend_layer_results(ev.last_result.result,
                                                    r.result.result, layer))],
           object |-> r.object]

\* One turn of the loop of evaluate_animation(), for the Layer at
\* layer_index: the locals and the object.
evaluate_animation_layer(ev, obj, ls, a) ==
  LET l == ls.layer_array[a][ev.layer_index + 1]
      layer == ls.AnimationLayer[l]
      next == [ev EXCEPT !.layer_index = @ + 1]
      r == evaluate_layer(obj, ls, l, ev.output_index, ev.eval_time)
  IN IF layer.influence <= 0 THEN [eval |-> next, object |-> obj]
     ELSE IF ~r.result.has_value THEN [eval |-> next, object |-> r.object]
     ELSE IF ~ev.last_result.has_value
       THEN [eval |-> [next EXCEPT !.last_result = r.result],
             object |-> r.object]
     ELSE [eval |-> [next EXCEPT !.last_result =
                       optional(blend_layer_results(ev.last_result.result,
                                                    r.result.result, layer))],
           object |-> r.object]

\* The end of evaluate_animation(): the result, if there is one, is applied.
evaluate_animation_end(ev, obj) ==
  IF ~ev.last_result.has_value THEN obj
  ELSE apply_evaluation_result(obj, ev.last_result.result,
                               ev.flush_to_original)

\* The loop of evaluate_animation() from layer_index on, and its end.
RECURSIVE evaluate_animation_loop(_, _, _, _)
evaluate_animation_loop(ev, obj, ls, a) ==
  IF ev.layer_index = Len(ls.layer_array[a])
    THEN [eval |-> [ev EXCEPT !.pc = "done"],
          object |-> evaluate_animation_end(ev, obj)]
  ELSE LET r == evaluate_animation_layer(ev, obj, ls, a)
       IN evaluate_animation_loop(r.eval, r.object, ls, a)

\* evaluate_animation(animated_id_ptr, animation, output_index,
\* anim_eval_context, flush_to_original): the locals at its end and the
\* object.
evaluate_animation(obj, ls, a, output_index, eval_time, flush_to_original) ==
  evaluate_animation_loop(
    [pc |-> "layers", layer_index |-> 0, last_result |-> nullopt,
     eval_time |-> eval_time, output_index |-> output_index,
     flush_to_original |-> flush_to_original],
    obj, ls, a)

---------------------------------------------------------------------------
(* The actions: one per public function. *)

\* Take over the state a function left.
Commit(st) ==
  /\ outputs' = st.outputs
  /\ last_output_stable_index' = st.last_output_stable_index
  /\ id_us' = st.id_us
  /\ adt' = st.adt
  /\ UNCHANGED <<layerVars, evalVars>>

\* Take over the Layers and Strips a function left.
CommitLayers(ls) ==
  /\ layer_array' = ls.layer_array
  /\ layer_active_index' = ls.layer_active_index
  /\ AnimationLayer' = ls.AnimationLayer
  /\ AnimationStrip' = ls.AnimationStrip
  /\ allocated' = ls.allocated
  /\ freed' = ls.freed
  /\ UNCHANGED <<outputVars, evalVars>>

\* Fresh Animations, and objects without AnimData.
InitOutputs ==
  /\ outputs = [a \in Anims |-> <<>>]
  /\ last_output_stable_index = [a \in Anims |-> 0]
  /\ id_us = [a \in Anims |-> 0]
  /\ adt = [o \in Objects |-> NoAnimData]

\* Animations without Layers.
InitLayers ==
  /\ layer_array = [a \in Anims |-> <<>>]
  /\ layer_active_index = [a \in Anims |-> 0]
  /\ AnimationLayer = [p \in LayerPtrs |-> DefaultLayer]
  /\ AnimationStrip = [p \in StripPtrs |-> DefaultStrip]
  /\ allocated = [layers |-> {}, strips |-> {}]
  /\ freed = [layers |-> {}, strips |-> {}]

\* No evaluation is running.
InitIdle ==
  /\ object = <<>>
  /\ eval = [pc |-> "idle"]
  /\ blend_call = <<>>
  /\ strip_call = <<>>
  /\ output_add_call = <<>>

Init == InitOutputs /\ InitLayers /\ InitIdle

\* Animation::output_add()
OutputAdd(a) ==
  /\ Len(outputs[a]) < OutputCap(a)
  /\ Commit(output_add(State, a))

\* Animation::output_name_set(out, new_name)
OutputNameSet(a, i, new_name) ==
  Commit(output_name_set(State, a, i, new_name))

\* Output::assign_id(animated_id), the low-level call
OutputAssignId(a, i, o) ==
  Commit(Output_assign_id(State, a, i, o).st)

\* Animation::assign_id(output, animated_id); output may be nullptr
AnimationAssignId(a, i, o) ==
  Commit(Animation_assign_id(State, a, i, o).st)

\* Animation::unassign_id(animated_id); asserts that the ID is assigned to it
AnimationUnassignId(a, o) ==
  /\ adt[o].exists /\ adt[o].animation = a
  /\ Commit(Animation_unassign_id(State, a, o))

\* assign_animation(anim, animated_id)
AssignAnimation(a, o) ==
  Commit(assign_animation(State, a, o).st)

\* unassign_animation(animated_id)
UnassignAnimation(o) ==
  Commit(unassign_animation(State, o))

Next ==
  \/ \E a \in Anims : OutputAdd(a)
  \/ \E a \in Anims : \E i \in 1..Len(outputs[a]) : \E n \in InputNames :
       OutputNameSet(a, i, n)
  \/ \E a \in Anims : \E i \in 1..Len(outputs[a]) : \E o \in Objects :
       OutputAssignId(a, i, o)
  \/ \E a \in Anims : \E i \in 0..Len(outputs[a]) : \E o \in Objects :
       AnimationAssignId(a, i, o)
  \/ \E a \in Anims : \E o \in Objects : AnimationUnassignId(a, o)
  \/ \E a \in Anims : \E o \in Objects : AssignAnimation(a, o)
  \/ \E o \in Objects : UnassignAnimation(o)

Spec == Init /\ [][Next]_vars

\* Animation::layer_add(name)
LayerAdd(a, name) ==
  /\ LayerPtrs \ (allocated.layers \cup freed.layers) # {}
  /\ CommitLayers(layer_add(LayerState, a,
         MEM_new(LayerPtrs, allocated.layers \cup freed.layers), name))

\* Animation::layer_remove(layer); the Layer may be one of another Animation
\* or one that was removed before.
LayerRemove(a, l) ==
  CommitLayers(layer_remove(LayerState, a, l).st)

\* Layer::strip_add(ANIM_STRIP_TYPE_KEYFRAME) on a live Layer
StripAdd(l) ==
  /\ l \in allocated.layers
  /\ StripPtrs \ (allocated.strips \cup freed.strips) # {}
  /\ CommitLayers(strip_add(LayerState, l,
         MEM_new(StripPtrs, allocated.strips \cup freed.strips)))

\* Layer::strip_remove(strip) on a live Layer; the Strip may be one of
\* another Layer or one that was removed before.
StripRemove(l, s) ==
  /\ l \in allocated.layers
  /\ CommitLayers(strip_remove(LayerState, l, s).st)

NextLayers ==
  \/ \E a \in Anims : \E name \in LayerNames : LayerAdd(a, name)
  \/ \E a \in Anims : \E l \in LayerPtrs : LayerRemove(a, l)
  \/ \E l \in LayerPtrs : StripAdd(l)
  \/ \E l \in LayerPtrs : \E s \in StripPtrs : StripRemove(l, s)

SpecLayers == Init /\ [][NextLayers]_vars

\* One Animation with one Layer that has one keyframe Strip, without keys.
InitKeys ==
  /\ InitOutputs
  /\ InitIdle
  /\ \E ls \in {strip_add(
                   layer_add([layer_array |-> [a \in Anims |-> <<>>],
                              layer_active_index |-> [a \in Anims |-> 0],
                              AnimationLayer |-> [p \in LayerPtrs |-> DefaultLayer],
                              AnimationStrip |-> [p \in StripPtrs |-> DefaultStrip],
                              allocated |-> [layers |-> {}, strips |-> {}],
                              freed |-> [layers |-> {}, strips |-> {}]],
                             "anim", 1, "layer"),
                   1, 1)} :
       /\ layer_array = ls.layer_array
       /\ layer_active_index = ls.layer_active_index
       /\ AnimationLayer = ls.AnimationLayer
       /\ AnimationStrip = ls.AnimationStrip
       /\ allocated = ls.allocated
       /\ freed = ls.freed

\* KeyframeStrip::keyframe_insert(out, rna_path, array_index, (time, value),
\* settings) on a live Strip; insert_vert_fcurve() accepts the key or not.
KeyframeInsert(s, output_stable_index, prop, time, value, accepted) ==
  /\ s \in allocated.strips
  /\ \/ fcurve_find(LayerState, s, output_stable_index, prop[1], prop[2])
          # NullFCurve
     \/ fcurve_count(AnimationStrip[s].channels_for_output_array) < MaxFCurves
  /\ CommitLayers(keyframe_insert(LayerState, s, output_stable_index,
                                  prop[1], prop[2], time, value, accepted).st)

\* The F-Curve subsystem marks an F-Curve as refusing new keys.
FCurveProtect(s, g, c) ==
  /\ s \in allocated.strips
  /\ g \in 1..Len(AnimationStrip[s].channels_for_output_array)
  /\ c \in 1..Len(AnimationStrip[s].channels_for_output_array[g].fcurve_array)
  /\ CommitLayers([LayerState EXCEPT
        !.AnimationStrip[s].channels_for_output_array[g].fcurve_array[c].flag =
           @ \cup {"FCURVE_PROTECTED"}])

NextKeys ==
  \/ \E s \in StripPtrs : \E out \in KeyOutputs : \E prop \in KeyProps :
     \E time \in KeyTimes : \E value \in KeyValues : \E accepted \in BOOLEAN :
       KeyframeInsert(s, out, prop, time, value, accepted)
  \/ \E s \in StripPtrs : \E g, c \in 1..MaxFCurves : FCurveProtect(s, g, c)

SpecKeys == InitKeys /\ [][NextKeys]_vars

\* Naming only: one Animation, one object, the wider choice of names.
NamedObjects == {"cube"}

NextNames ==
  \/ OutputAdd("anim")
  \/ \E name \in LayerNames : LayerAdd("anim", name)
  \/ \E i \in 1..Len(outputs["anim"]) : \E n \in RichNames :
       OutputNameSet("anim", i, n)
  \/ \E i \in 0..Len(outputs["anim"]) : \E o \in NamedObjects :
       AnimationAssignId("anim", i, o)
  \/ \E o \in NamedObjects : AnimationUnassignId("anim", o)

SpecNames == Init /\ [][NextNames]_vars

\* Two Animations that both have Outputs: output_add() on either, and
\* Animation::assign_id() of either with an Output of either.
OutputAddToAny(a) ==
  /\ Len(outputs[a]) < MaxOutputs
  /\ Commit(output_add(State, a))

AnimationAssignIdOf(a, b, i, o) ==
  Commit(Animation_assign_id_of(State, a, b, i, o).st)

NextOutputsOfTwo ==
  \/ \E a \in Anims : OutputAddToAny(a)
  \/ \E a, b \in Anims : \E i \in 1..Len(outputs[b]) : \E o \in NamedObjects :
       AnimationAssignIdOf(a, b, i, o)
  \/ \E a \in Anims : \E o \in NamedObjects : AnimationUnassignId(a, o)

SpecOutputsOfTwo == Init /\ [][NextOutputsOfTwo]_vars

\* The output, the times and the Layer settings of the evaluations.
EvalOutputs == {1}
EvalTimes == {1, 2}
EvalInfluences == {0, Unit \div 2}
EvalMixModes == {"ADD"}

\* The Strips of the evaluated Animation: their frame range and offset, the
\* keys inserted as <<output, rna_path, array_index, time, value>>, and the
\* F-Curves that are muted afterwards.
StripKinds ==
  {[frame_start |-> -infinity, frame_end |-> infinity, frame_offset |-> 0,
    keys |-> << <<1, "location", 0, 1, Unit>>,
                <<1, "location", 0, 2, 2 * Unit>>,
                <<1, "rotation_euler", 0, 1, Unit>>,
                <<1, "nonexistent", 0, 1, Unit>>,
                <<2, "rotation_euler", 0, 1, Unit>> >>,
    muted |-> {<<"rotation_euler", 0>>}],
   [frame_start |-> 2, frame_end |-> infinity, frame_offset |-> 1,
    keys |-> << <<1, "location", 0, 1, 5 * Unit>>,
                <<1, "location", 1, 1, Unit>>,
                <<1, "location", 1, 2, 6 * Unit>> >>,
    muted |-> {}],
   [frame_start |-> -infinity, frame_end |-> infinity, frame_offset |-> 0,
    keys |-> << <<2, "location", 0, 1, 7 * Unit>> >>,
    muted |-> {}]}

StripSeqs == UNION {[1..n -> StripKinds] : n \in 0..MaxEvalStrips}

LayerCfgs ==
  [influence : EvalInfluences, mix_mode : EvalMixModes, strips : StripSeqs]

RECURSIVE strip_total(_)
strip_total(scene) ==
  IF scene = <<>> THEN 0
  ELSE Len(Head(scene).strips) + strip_total(Tail(scene))

\* The Layers of the evaluated Animation, bottom first.
EvalScenes ==
  {scene \in UNION {[1..n -> LayerCfgs] : n \in 1..MaxEvalLayers} :
     strip_total(scene) <= MaxStrips}

\* keyframe_insert() of each key in turn.
RECURSIVE insert_keys(_, _, _)
insert_keys(ls, s, keys) ==
  IF keys = <<>> THEN ls
  ELSE LET k == Head(keys)
       IN insert_keys(keyframe_insert(ls, s, k[1], k[2], k[3], k[4], k[5],
                                      TRUE).st,
                      s, Tail(keys))

\* The F-Curves of the given properties are muted.
mute_fcurves(ls, s, muted) ==
  LET channels == ls.AnimationStrip[s].channels_for_output_array
      mute(fcu) == IF <<fcu.rna_path, fcu.array_index>> \in muted
                     THEN [fcu EXCEPT !.flag = @ \cup {"FCURVE_MUTED"}]
                     ELSE fcu
  IN [ls EXCEPT !.AnimationStrip[s].channels_for_output_array =
        [g \in DOMAIN channels |->
           [channels[g] EXCEPT !.fcurve_array =
              [c \in DOMAIN channels[g].fcurve_array |->
                 mute(channels[g].fcurve_array[c])]]]]

\* Animations without Layers.
NoLayers ==
  [layer_array |-> [a \in Anims |-> <<>>],
   layer_active_index |-> [a \in Anims |-> 0],
   AnimationLayer |-> [p \in LayerPtrs |-> DefaultLayer],
   AnimationStrip |-> [p \in StripPtrs |-> DefaultStrip],
   allocated |-> [layers |-> {}, strips |-> {}],
   freed |-> [layers |-> {}, strips |-> {}]]

\* The Strip that Layer::strip_add(), the frame range and offset, the keys
\* and the muting leave, for each kind.
KeyedStrips ==
  [kind \in StripKinds |->
     LET added == strip_add(layer_add(NoLayers, "anim", 1, "layer"), 1, 1)
         placed == [added EXCEPT
                      !.AnimationStrip[1].frame_start = kind.frame_start,
                      !.AnimationStrip[1].frame_end = kind.frame_end,
                      !.AnimationStrip[1].frame_offset = kind.frame_offset]
     IN mute_fcurves(insert_keys(placed, 1, kind.keys), 1, kind.muted)
          .AnimationStrip[1]]

\* Layer::strip_add() and what is done to the new Strip.
build_strip(ls, l, kind) ==
  LET p == MEM_new(StripPtrs, ls.allocated.strips \cup ls.freed.strips)
  IN [strip_add(ls, l, p) EXCEPT !.AnimationStrip[p] = KeyedStrips[kind]]

RECURSIVE build_strips(_, _, _)
build_strips(ls, l, kinds) ==
  IF kinds = <<>> THEN ls
  ELSE build_strips(build_strip(ls, l, Head(kinds)), l, Tail(kinds))

\* Animation::layer_add(), the influence and mix mode, and the Strips.
build_layer(ls, cfg) ==
  LET p == MEM_new(LayerPtrs, ls.allocated.layers \cup ls.freed.layers)
      added == layer_add(ls, "anim", p, "layer")
      set == [added EXCEPT !.AnimationLayer[p].influence = cfg.influence,
                           !.AnimationLayer[p].mix_mode = cfg.mix_mode]
  IN build_strips(set, p, cfg.strips)

RECURSIVE build_scene(_, _)
build_scene(ls, scene) ==
  IF scene = <<>> THEN ls
  ELSE build_scene(build_layer(ls, Head(scene)), Tail(scene))

\* The animated object: its properties hold values that no key has, and
\* nothing has been written.
InitialObject ==
  [value |-> [key \in ObjProps |-> 3 * Unit],
   written |-> [key \in ObjProps |-> 0],
   orig_value |-> [key \in ObjProps |-> 3 * Unit],
   orig_written |-> [key \in ObjProps |-> 0]]

\* The locals of evaluate_animation() before it is called.
IdleEval ==
  [pc |-> "idle", layer_index |-> 0, last_result |-> nullopt, eval_time |-> 0,
   output_index |-> 0, flush_to_original |-> FALSE]

\* An Animation with two Outputs, the first assigned to the cube, and with
\* the Layers and Strips of one of the scenes.
InitScenes(scenes) ==
  /\ \E st \in {Output_assign_id(
                  output_add(output_add(
                    [outputs |-> [a \in Anims |-> <<>>],
                     last_output_stable_index |-> [a \in Anims |-> 0],
                     id_us |-> [a \in Anims |-> 0],
                     adt |-> [o \in Objects |-> NoAnimData]], "anim"), "anim"),
                  "anim", 1, "cube").st} :
       /\ outputs = st.outputs
       /\ last_output_stable_index = st.last_output_stable_index
       /\ id_us = st.id_us
       /\ adt = st.adt
  /\ \E scene \in scenes :
       \E ls \in {build_scene(NoLayers, scene)} :
         /\ layer_array = ls.layer_array
         /\ layer_active_index = ls.layer_active_index
         /\ AnimationLayer = ls.AnimationLayer
         /\ AnimationStrip = ls.AnimationStrip
         /\ allocated = ls.allocated
         /\ freed = ls.freed
  /\ object = InitialObject
  /\ eval = IdleEval
  /\ blend_call = <<>>
  /\ strip_call = <<>>
  /\ output_add_call = <<>>

InitEval == InitScenes(EvalScenes)

\* evaluate_animation(animated_id_ptr, animation, output_index,
\* anim_eval_context, flush_to_original) is entered.
EvaluateAnimationBegin(output_index, eval_time, flush_to_original) ==
  /\ eval.pc = "idle"
  /\ eval' = [IdleEval EXCEPT !.pc = "layers", !.output_index = output_index,
                              !.eval_time = eval_time,
                              !.flush_to_original = flush_to_original]
  /\ UNCHANGED <<outputVars, layerVars, object, blend_call, strip_call,
               output_add_call>>

\* One turn of its loop over the Layers.
EvaluateAnimationLayer ==
  /\ eval.pc = "layers"
  /\ eval.layer_index < Len(layer_array["anim"])
  /\ LET r == evaluate_animation_layer(eval, object, LayerState, "anim")
     IN /\ eval' = r.eval
        /\ object' = r.object
  /\ UNCHANGED <<outputVars, layerVars, blend_call, strip_call,
               output_add_call>>

\* The loop is over: the result is applied and the function returns.
EvaluateAnimationEnd ==
  /\ eval.pc = "layers"
  /\ eval.layer_index = Len(layer_array["anim"])
  /\ eval' = [eval EXCEPT !.pc = "done"]
  /\ object' = evaluate_animation_end(eval, object)
  /\ UNCHANGED <<outputVars, layerVars, blend_call, strip_call,
               output_add_call>>

NextEval ==
  \/ \E output_index \in EvalOutputs : \E eval_time \in EvalTimes :
     \E flush_to_original \in BOOLEAN :
       EvaluateAnimationBegin(output_index, eval_time, flush_to_original)
  \/ EvaluateAnimationLayer
  \/ EvaluateAnimationEnd

SpecEval == InitEval /\ [][NextEval]_vars

\* Removing Layers and Strips from Animations whose Strips hold channel
\* groups and F-Curves; the influence of the Layers plays no part.
InitFree ==
  InitScenes({scene \in EvalScenes :
                \A l \in DOMAIN scene : scene[l].influence = Unit \div 2})

NextFree ==
  \/ \E a \in Anims : \E l \in LayerPtrs : LayerRemove(a, l)
  \/ \E l \in LayerPtrs : \E s \in StripPtrs : StripRemove(l, s)

SpecFree == InitFree /\ [][NextFree]_vars

\* evaluate_animation() from its call to its return.
EvaluateAnimation(output_index, eval_time, flush_to_original) ==
  /\ eval.pc = "idle"
  /\ LET r == evaluate_animation(object, LayerState, "anim", output_index,
                                 eval_time, flush_to_original)
     IN /\ eval' = r.eval
        /\ object' = r.object
  /\ UNCHANGED <<outputVars, layerVars, blend_call, strip_call,
               output_add_call>>

NextEvalCalls ==
  \E output_index \in EvalOutputs : \E eval_time \in EvalTimes :
  \E flush_to_original \in BOOLEAN :
    EvaluateAnimation(output_index, eval_time, flush_to_original)

SpecEvalCalls == InitEval /\ [][NextEvalCalls]_vars

\* The evaluation for the second Output, of the scenes whose Strips all have a
\* Channel Group for it: in one kind of Strip every F-Curve of that group is
\* muted.
SecondOutput == 2

SecondOutputScenes ==
  {scene \in EvalScenes :
     \A l \in DOMAIN scene : \A s \in DOMAIN scene[l].strips :
       \E i \in DOMAIN scene[l].strips[s].keys :
         scene[l].strips[s].keys[i][1] = SecondOutput}

InitSecondOutput == InitScenes(SecondOutputScenes)

NextSecondOutput ==
  \/ \E eval_time \in EvalTimes : \E flush_to_original \in BOOLEAN :
       EvaluateAnimationBegin(SecondOutput, eval_time, flush_to_original)
  \/ EvaluateAnimationLayer
  \/ EvaluateAnimationEnd

SpecSecondOutput == InitSecondOutput /\ [][NextSecondOutput]_vars

\* The results, influences and mix modes that are blended.
BlendValues == {2 * Unit, 3 * Unit}
BlendInfluences == {0, Unit \div 2, Unit}
BlendResults == UNION {[keys -> BlendValues] : keys \in SUBSET ObjProps}

\* A call of blend_layer_results() that has not returned.
InitBlend ==
  /\ InitOutputs
  /\ InitLayers
  /\ object = <<>>
  /\ eval = [pc |-> "idle"]
  /\ strip_call = <<>>
  /\ output_add_call = <<>>
  /\ blend_call \in [last_result : BlendResults,
                     current_result : BlendResults,
                     current_layer : [influence : BlendInfluences,
                                      mix_mode : MixModes],
                     blend : {nullopt}]

\* blend_layer_results(last_result, current_result, current_layer) returns.
BlendLayerResults ==
  /\ ~blend_call.blend.has_value
  /\ blend_call' = [blend_call EXCEPT !.blend =
       optional(blend_layer_results(blend_call.last_result,
                                    blend_call.current_result,
                                    blend_call.current_layer))]
  /\ UNCHANGED <<outputVars, layerVars, object, eval, strip_call,
               output_add_call>>

NextBlend == BlendLayerResults

SpecBlend == InitBlend /\ [][NextBlend]_vars

\* The frames a Strip is resized to and asked about: 0.75, 1.0, 1.25, 2.0
\* and 2.25, and the infinities.
Frames ==
  {-infinity, Unit - 1, Unit, Unit + 1, 2 * Unit, 2 * Unit + 1, infinity}

\* A new Strip, of which nothing was asked.
InitStrip ==
  /\ InitOutputs
  /\ InitLayers
  /\ object = <<>>
  /\ eval = [pc |-> "idle"]
  /\ blend_call = <<>>
  /\ output_add_call = <<>>
  /\ strip_call = [strip |-> DefaultStrip, function |-> "Strip", frame_time |-> 0,
                   returned |-> FALSE]

\* Strip::resize(frame_start, frame_end).
StripResize(frame_start, frame_end) ==
  /\ frame_start <= frame_end
  /\ frame_start < infinity
  /\ frame_end > -infinity
  /\ strip_call' = [strip |-> resize(strip_call.strip, frame_start, frame_end),
                    function |-> "resize", frame_time |-> 0,
                    returned |-> FALSE]
  /\ UNCHANGED <<outputVars, layerVars, object, eval, blend_call,
               output_add_call>>

\* Strip::contains_frame(frame_time).
StripContainsFrame(frame_time) ==
  /\ strip_call' = [strip_call EXCEPT
                      !.function = "contains_frame",
                      !.frame_time = frame_time,
                      !.returned = contains_frame(strip_call.strip, frame_time)]
  /\ UNCHANGED <<outputVars, layerVars, object, eval, blend_call,
               output_add_call>>

\* Strip::is_last_frame(frame_time).
StripIsLastFrame(frame_time) ==
  /\ strip_call' = [strip_call EXCEPT
                      !.function = "is_last_frame",
                      !.frame_time = frame_time,
                      !.returned = is_last_frame(strip_call.strip, frame_time)]
  /\ UNCHANGED <<outputVars, layerVars, object, eval, blend_call,
               output_add_call>>

NextStrip ==
  \/ \E frame_start, frame_end \in Frames : StripResize(frame_start, frame_end)
  \/ \E frame_time \in Frames : StripContainsFrame(frame_time)
  \/ \E frame_time \in Frames : StripIsLastFrame(frame_time)

SpecStrip == InitStrip /\ [][NextStrip]_vars

\* A write to the RNA property "frame_start" of the Strip: the property has
\* no range and no set function, the value is stored as it is.
StripFrameStartSet(value) ==
  /\ strip_call' = [strip |-> [strip_call.strip EXCEPT !.frame_start = value],
                    function |-> "frame_start", frame_time |-> 0,
                    returned |-> FALSE]
  /\ UNCHANGED <<outputVars, layerVars, object, eval, blend_call,
               output_add_call>>

\* A write to the RNA property "frame_end" of the Strip.
StripFrameEndSet(value) ==
  /\ strip_call' = [strip |-> [strip_call.strip EXCEPT !.frame_end = value],
                    function |-> "frame_end", frame_time |-> 0,
                    returned |-> FALSE]
  /\ UNCHANGED <<outputVars, layerVars, object, eval, blend_call,
               output_add_call>>

\* The Strip as the C++ functions and the RNA properties change it.
NextStripProperties ==
  \/ \E frame_start, frame_end \in Frames : StripResize(frame_start, frame_end)
  \/ \E value \in Frames : StripFrameStartSet(value)
  \/ \E value \in Frames : StripFrameEndSet(value)
  \/ \E frame_time \in Frames : StripContainsFrame(frame_time)

SpecStripProperties == InitStrip /\ [][NextStripProperties]_vars

\* The threads that call Animation::output_add() without a lock.
Threads == {1, 2}

\* The locals of a thread that is not in output_add().
NoCall == [pc |-> "idle", anim |-> NoAnim, loaded |-> 0, stable_index |-> 0]

\* Fresh Animations, and no thread in output_add().
InitThreads ==
  /\ InitOutputs
  /\ InitLayers
  /\ object = <<>>
  /\ eval = [pc |-> "idle"]
  /\ blend_call = <<>>
  /\ strip_call = <<>>
  /\ output_add_call = [t \in Threads |-> NoCall]

\* A thread enters output_add() of an Animation: output_allocate_() has
\* allocated the Output.
OutputAddEnter(t, a) ==
  /\ output_add_call[t].pc = "idle"
  /\ Len(outputs[a])
       + Cardinality({u \in Threads : output_add_call[u].anim = a}) < MaxOutputs
  /\ output_add_call' = [output_add_call EXCEPT ![t] =
                           [NoCall EXCEPT !.pc = "allocated", !.anim = a]]
  /\ UNCHANGED <<outputVars, layerVars, object, eval, blend_call, strip_call>>

\* this->last_output_stable_index++, the read: the increment is not atomic.
OutputAllocateLoad(t) ==
  /\ output_add_call[t].pc = "allocated"
  /\ output_add_call' = [output_add_call EXCEPT
       ![t].pc = "loaded",
       ![t].loaded = last_output_stable_index[output_add_call[t].anim]]
  /\ UNCHANGED <<outputVars, layerVars, object, eval, blend_call, strip_call>>

\* this->last_output_stable_index++, the write.
OutputAllocateStore(t) ==
  /\ output_add_call[t].pc = "loaded"
  /\ last_output_stable_index' =
       [last_output_stable_index EXCEPT ![output_add_call[t].anim] =
          output_add_call[t].loaded + 1]
  /\ output_add_call' = [output_add_call EXCEPT ![t].pc = "stored"]
  /\ UNCHANGED <<outputs, id_us, adt, layerVars, object, eval, blend_call,
                 strip_call>>

\* output.stable_index = this->last_output_stable_index.
OutputAllocateIndex(t) ==
  /\ output_add_call[t].pc = "stored"
  /\ output_add_call' = [output_add_call EXCEPT
       ![t].pc = "indexed",
       ![t].stable_index = last_output_stable_index[output_add_call[t].anim]]
  /\ UNCHANGED <<outputVars, layerVars, object, eval, blend_call, strip_call>>

\* grow_array_and_append() of output_add(), taken as one step, and the
\* return.
OutputAddAppend(t) ==
  /\ output_add_call[t].pc = "indexed"
  /\ outputs' = [outputs EXCEPT ![output_add_call[t].anim] =
       Append(@, [NewOutput EXCEPT
                    !.stable_index = output_add_call[t].stable_index])]
  /\ output_add_call' = [output_add_call EXCEPT ![t] = NoCall]
  /\ UNCHANGED <<last_output_stable_index, id_us, adt, layerVars, object, eval,
                 blend_call, strip_call>>

NextThreads ==
  \/ \E t \in Threads : \E a \in Anims : OutputAddEnter(t, a)
  \/ \E t \in Threads : OutputAllocateLoad(t)
  \/ \E t \in Threads : OutputAllocateStore(t)
  \/ \E t \in Threads : OutputAllocateIndex(t)
  \/ \E t \in Threads : OutputAddAppend(t)

SpecThreads == InitThreads /\ [][NextThreads]_vars

---------------------------------------------------------------------------
(* Outputs and assignment: the properties. *)

\* C1: the Outputs that output_add() returned on one Animation have nonzero,
\* pairwise different stable indices that increase strictly in creation
\* order: the k-th created Output has the value last_output_stable_index had
\* after its k-th increment, which is k, and the next output_add() gives its
\* Output the incremented counter, above every index handed out before.
C1_StableIndexIncreasing ==
  \A a \in Anims :
    /\ last_output_stable_index[a] = Len(outputs[a])
    /\ \A k \in 1..Len(outputs[a]) :
         /\ outputs[a][k].stable_index # 0
         /\ outputs[a][k].stable_index = k
         /\ \A j \in 1..Len(outputs[a]) :
              j < k => outputs[a][j].stable_index < outputs[a][k].stable_index
    /\ LET added == output_add(State, a)
           new == added.outputs[a][Len(outputs[a]) + 1]
       IN /\ Len(added.outputs[a]) = Len(outputs[a]) + 1
          /\ new.stable_index = last_output_stable_index[a] + 1
          /\ new.stable_index = added.last_output_stable_index[a]
          /\ \A j \in 1..Len(outputs[a]) :
               /\ added.outputs[a][j] = outputs[a][j]
               /\ outputs[a][j].stable_index < new.stable_index

\* C1, its case: output_add() has been called as often as the bound allows.
C1_SeveralOutputsAdded ==
  /\ Len(outputs["anim"]) = MaxOutputs
  /\ outputs["anim"][1].stable_index # outputs["anim"][MaxOutputs].stable_index

\* C2 as stated: no two Outputs of one Animation have the same name.
C2_NoTwoOutputsShareAName ==
  \A a \in Anims : \A i, j \in 1..Len(outputs[a]) :
    i # j => outputs[a][i].name # outputs[a][j].name

\* C2: after any sequence of output_add, output_name_set and assign_id on
\* one Animation, two Outputs of it have the same name only when both are
\* still unnamed (output_add() leaves the name empty); a name given by
\* output_name_set() or by assign_id() is the name of no other Output.
C2_NamedOutputsAreUnique ==
  \A a \in Anims : \A i, j \in 1..Len(outputs[a]) :
    (i # j /\ outputs[a][i].name = outputs[a][j].name)
       => outputs[a][i].name = EmptyName

\* C2, its case: a rename ran into a name in use and was given the next free
\* number (no caller passes "OBCube.002").
C2_RenameCollided ==
  \E i \in 1..Len(outputs["anim"]) : outputs["anim"][i].name = <<"OBCube", 2>>

\* C9 as stated: assign_animation() that returns true has bound the object
\* to a suitable Output of anim: the found one, otherwise a new one.
C9_BoundToFoundOrNewOutput ==
  \A a \in Anims : \A o \in Objects :
    LET unassigned == unassign_animation(State, o)
        found == find_suitable_output_for(unassigned, a, o)
        r == assign_animation(State, a, o)
        bound == IF found # NullOutput THEN found ELSE Len(outputs[a]) + 1
    IN r.ret =>
         /\ r.st.adt[o].animation = a
         /\ bound \in 1..Len(r.st.outputs[a])
         /\ is_suitable_for(r.st.outputs[a][bound], o)
         /\ r.st.adt[o].output_stable_index =
              r.st.outputs[a][bound].stable_index

\* C9: assign_animation(anim, object) first unassigns the Animation the
\* object has (that Animation loses one user), and when it returns true the
\* object is assigned to anim (anim gains one user); it is bound to the
\* Output that find_suitable_output_for() found, and when there is none it
\* is bound to no Output (recorded stable index 0). No Output is created.
C9_BoundToFoundOutputOrNone ==
  \A a \in Anims : \A o \in Objects :
    LET before == get_animation(State, o)
        unassigned == unassign_animation(State, o)
        found == find_suitable_output_for(unassigned, a, o)
        r == assign_animation(State, a, o)
    IN /\ Len(r.st.outputs[a]) = Len(outputs[a])
       /\ r.st.last_output_stable_index = last_output_stable_index
       /\ before # NoAnim => unassigned.id_us[before] = id_us[before] - 1
       /\ r.ret =>
            /\ r.st.adt[o].animation = a
            /\ r.st.id_us[a] = unassigned.id_us[a] + 1
            /\ found # NullOutput =>
                 /\ is_suitable_for(r.st.outputs[a][found], o)
                 /\ r.st.adt[o].output_stable_index =
                      outputs[a][found].stable_index
            /\ found = NullOutput => r.st.adt[o].output_stable_index = 0

\* C9, its case: an object assigned to another Animation is assigned to an
\* Animation that has Outputs, none of them suitable; the call returns true.
C9_AssignedWithoutSuitableOutput ==
  \E o \in Objects :
    /\ get_animation(State, o) = "other_anim"
    /\ Len(outputs["anim"]) > 0
    /\ find_suitable_output_for(unassign_animation(State, o), "anim", o)
         = NullOutput
    /\ assign_animation(State, "anim", o).ret
    /\ assign_animation(State, "anim", o).st.adt[o].animation = "anim"

\* C10: whenever Animation::assign_id(output, object) returns false, the
\* object's Animation reference, recorded stable index and recorded output
\* name, every Output (idtype and name included), every Animation's user
\* count and every other object are as before the call.
C10_FailedAssignChangesNothing ==
  \A a \in Anims : \A i \in 0..Len(outputs[a]) : \A o \in Objects :
    LET r == Animation_assign_id(State, a, i, o)
    IN ~r.ret =>
         /\ r.st.adt[o].animation = adt[o].animation
         /\ r.st.adt[o].output_stable_index = adt[o].output_stable_index
         /\ r.st.adt[o].output_name = adt[o].output_name
         /\ r.st.outputs = outputs
         /\ r.st.id_us = id_us
         /\ r.st.last_output_stable_index = last_output_stable_index
         /\ \A p \in Objects \ {o} : r.st.adt[p] = adt[p]

\* C10, its case: one call fails because the object already has an
\* Animation although the Output would take it, another because the Output
\* refuses the type of an object that has no AnimData yet.
C10_AssignRefused ==
  /\ \E a \in Anims : \E i \in 1..Len(outputs[a]) : \E o \in Objects :
       /\ adt[o].animation # NoAnim
       /\ is_suitable_for(outputs[a][i], o)
       /\ outputs[a][i].stable_index # adt[o].output_stable_index
       /\ ~Animation_assign_id(State, a, i, o).ret
  /\ \E a \in Anims : \E i \in 1..Len(outputs[a]) : \E o \in Objects :
       /\ ~adt[o].exists
       /\ id_can_have_animdata(o)
       /\ ~is_suitable_for(outputs[a][i], o)
       /\ ~Animation_assign_id(State, a, i, o).ret

\* C11: the user count of every Animation is the number of IDs whose AnimData
\* references it (the count is 0 before any assignment): a successful
\* assignment adds one, an unassignment removes one, a failed call none.
C11_UsersAreTheAssignedIds ==
  \A a \in Anims :
    id_us[a] = Cardinality({o \in Objects : adt[o].animation = a})

\* An ID that was bound to an Output of one Animation is now assigned to the
\* other Animation.
C11_IdMovedToOtherAnimation ==
  \E o \in Objects :
    /\ adt[o].animation = "other_anim"
    /\ adt[o].output_name # EmptyName
    /\ id_us["other_anim"] >= 1

\* C12: find_suitable_output_for() returns only an Output that is suitable
\* for the ID, and it is the first that is one of: the Output with the
\* recorded stable index, when the AnimData references this Animation; the
\* Output named by the non-empty recorded output name; the Output named as the
\* ID; without such an Output it returns none.
C12_FirstSuitableOfIndexNameIdName ==
  \A a \in Anims : \A o \in Objects :
    LET found == find_suitable_output_for(State, a, o)
        named(name) == {i \in 1..Len(outputs[a]) : outputs[a][i].name = name}
        indexed == {i \in 1..Len(outputs[a]) :
                      outputs[a][i].stable_index = adt[o].output_stable_index}
        suitable(S) == S # {} /\ is_suitable_for(outputs[a][Min(S)], o)
        first == IF adt[o].exists /\ adt[o].animation = a THEN indexed ELSE {}
        second == IF adt[o].exists /\ adt[o].output_name # EmptyName
                    THEN named(adt[o].output_name) ELSE {}
        third == named(IdName(o))
    IN /\ found # NullOutput => is_suitable_for(outputs[a][found], o)
       /\ suitable(first) => found = Min(first)
       /\ ~suitable(first) /\ suitable(second) => found = Min(second)
       /\ ~suitable(first) /\ ~suitable(second) /\ suitable(third) =>
            found = Min(third)
       /\ ~suitable(first) /\ ~suitable(second) /\ ~suitable(third) =>
            found = NullOutput

\* The ID is not assigned to the Animation, an Output has its recorded stable
\* index, and another Output is found by name.
C12_FoundByNameNotByIndex ==
  \E o \in Objects :
    LET found == find_suitable_output_for(State, "anim", o)
        indexed == output_for_stable_index(State, "anim",
                                           adt[o].output_stable_index)
    IN /\ adt[o].exists
       /\ adt[o].animation # "anim"
       /\ indexed # NullOutput
       /\ is_suitable_for(outputs["anim"][indexed], o)
       /\ found # NullOutput
       /\ found # indexed

\* C13: Output::assign_id() succeeds only on an Output whose idtype is 0 or
\* the type of the ID, and leaves the idtype at the type of the ID; an idtype
\* that is set is never changed by any operation; so every ID that records
\* the stable index of an Output has the type of that Output.
C13_IdtypeSetOnceAndKept ==
  /\ [](\A a \in Anims : \A i \in 1..Len(outputs[a]) : \A o \in Objects :
          LET r == Output_assign_id(State, a, i, o)
          IN r.ret => /\ outputs[a][i].idtype \in {0, GS(o)}
                      /\ r.st.outputs[a][i].idtype = GS(o))
  /\ [](\A o \in Objects : \A i \in 1..Len(outputs["anim"]) :
          /\ adt[o].output_stable_index # 0
          /\ outputs["anim"][i].stable_index = adt[o].output_stable_index
          => outputs["anim"][i].idtype = GS(o))
  /\ [][\A a \in Anims : \A i \in 1..Len(outputs[a]) :
          outputs[a][i].idtype # 0 =>
            outputs'[a][i].idtype = outputs[a][i].idtype]_vars

\* An Output took its idtype from an ID that is bound to it, and refuses an
\* ID of another type that can be animated.
C13_OtherTypeRefused ==
  \E i \in 1..Len(outputs["anim"]) : \E o, p \in Objects :
    /\ adt[o].output_stable_index = outputs["anim"][i].stable_index
    /\ outputs["anim"][i].idtype = GS(o)
    /\ id_can_have_animdata(p)
    /\ GS(p) # GS(o)
    /\ ~Output_assign_id(State, "anim", i, p).ret

\* C14: a successful Output::assign_id() on a fresh Output (empty name,
\* idtype 0) leaves the Output with the name of the ID and the type of the
\* ID.
C14_FreshOutputTakesNameAndType ==
  \A a \in Anims : \A i \in 1..Len(outputs[a]) : \A o \in Objects :
    LET r == Output_assign_id(State, a, i, o)
    IN /\ outputs[a][i].name = EmptyName
       /\ outputs[a][i].idtype = 0
       /\ r.ret
       => /\ r.st.outputs[a][i].name = IdName(o)
          /\ r.st.outputs[a][i].idtype = GS(o)

---------------------------------------------------------------------------
(* Layers and Strips: the properties. *)

\* C6: layer_remove() of a Layer that is in the Animation's array, and
\* strip_remove() of a Strip that is in the Layer's array, return true and
\* leave the array one shorter: it is the array before the call without that
\* element, the other elements in the order they had, whatever the position
\* of the removed element.
C6_RemoveKeepsTheOthersInOrder ==
  /\ \A a \in Anims : \A l \in LayerPtrs :
       (\E i \in 1..Len(layer_array[a]) : layer_array[a][i] = l) =>
         LET r == layer_remove(LayerState, a, l)
         IN /\ r.ret
            /\ Len(r.st.layer_array[a]) = Len(layer_array[a]) - 1
            /\ r.st.layer_array[a] = SelectSeq(layer_array[a], LAMBDA x : x # l)
            /\ \A b \in Anims \ {a} : r.st.layer_array[b] = layer_array[b]
  /\ \A l \in allocated.layers : \A s \in StripPtrs :
       LET strips == AnimationLayer[l].strip_array
       IN (\E i \in 1..Len(strips) : strips[i] = s) =>
            LET r == strip_remove(LayerState, l, s)
            IN /\ r.ret
               /\ Len(r.st.AnimationLayer[l].strip_array) = Len(strips) - 1
               /\ r.st.AnimationLayer[l].strip_array =
                    SelectSeq(strips, LAMBDA x : x # s)
               /\ r.st.layer_array = layer_array
               /\ \A k \in allocated.layers \ {l} :
                    r.st.AnimationLayer[k] = AnimationLayer[k]

\* C6, its case: the middle one of three Layers, and the middle one of three
\* Strips, is removed and the first and the last stay, in that order.
C6_MiddleOfThreeRemoved ==
  /\ \E a \in Anims :
       /\ Len(layer_array[a]) = 3
       /\ layer_remove(LayerState, a, layer_array[a][2]).st.layer_array[a]
            = <<layer_array[a][1], layer_array[a][3]>>
  /\ \E l \in allocated.layers :
       LET strips == AnimationLayer[l].strip_array
       IN /\ Len(strips) = 3
          /\ strip_remove(LayerState, l, strips[2]).st
               .AnimationLayer[l].strip_array = <<strips[1], strips[3]>>

\* C7: layer_remove() of a Layer that is not in the Animation's array, and
\* strip_remove() of a Strip that is not in the Layer's array, return false
\* and change nothing: the arrays, the Layers and Strips, and what is
\* allocated and what is freed are as before.
C7_RemoveOfForeignChangesNothing ==
  /\ \A a \in Anims : \A l \in LayerPtrs :
       (\A i \in 1..Len(layer_array[a]) : layer_array[a][i] # l) =>
         LET r == layer_remove(LayerState, a, l)
         IN ~r.ret /\ r.st = LayerState
  /\ \A l \in allocated.layers : \A s \in StripPtrs :
       LET strips == AnimationLayer[l].strip_array
       IN (\A i \in 1..Len(strips) : strips[i] # s) =>
            LET r == strip_remove(LayerState, l, s)
            IN ~r.ret /\ r.st = LayerState

\* C7, its case: an Animation with Layers is asked to remove a live Layer of
\* the other Animation, and a Layer with Strips a live Strip of another Layer.
C7_ForeignRemoveRefused ==
  /\ \E l \in allocated.layers :
       /\ Len(layer_array["anim"]) > 0
       /\ \E i \in 1..Len(layer_array["other_anim"]) :
            layer_array["other_anim"][i] = l
       /\ ~layer_remove(LayerState, "anim", l).ret
  /\ \E l, k \in allocated.layers : \E s \in allocated.strips :
       /\ l # k
       /\ Len(AnimationLayer[l].strip_array) > 0
       /\ \E i \in 1..Len(AnimationLayer[k].strip_array) :
            AnimationLayer[k].strip_array[i] = s
       /\ ~strip_remove(LayerState, l, s).ret

---------------------------------------------------------------------------
(* Keys: the properties. *)

\* C8 as stated: a keyframe_insert() that fails (the F-Curve takes no keys,
\* or insert_vert_fcurve() returns a negative index) returns no F-Curve and
\* leaves the Strip as it was: no channel group and no F-Curve is added and
\* the keys are as before.
C8_FailedInsertLeavesStripAsBefore ==
  \A s \in allocated.strips : \A out \in KeyOutputs : \A prop \in KeyProps :
  \A time \in KeyTimes : \A value \in KeyValues : \A accepted \in BOOLEAN :
    LET r == keyframe_insert(LayerState, s, out, prop[1], prop[2], time, value,
                             accepted)
    IN r.fcurve = NullFCurve => r.st = LayerState

---------------------------------------------------------------------------
(* Evaluation: the properties. *)

\* C3: evaluate_layer() leaves every property of the animated object as it
\* was, whatever the Layer, the output and the time; the values it computes
\* are in the result it returns.
C3_EvaluateLayerWritesNothing ==
  \A l \in allocated.layers : \A output_index \in KeyOutputs :
  \A eval_time \in EvalTimes :
    evaluate_layer(object, LayerState, l, output_index, eval_time).object
      = object

\* evaluate_animation() has evaluated a Layer, and its result holds, for some
\* property, a value that the property does not have.
C3_LayerComputedAnotherValue ==
  /\ eval.pc = "layers"
  /\ eval.layer_index >= 1
  /\ eval.last_result.has_value
  /\ \E key \in DOMAIN eval.last_result.result :
       eval.last_result.result[key] # object.value[key]

\* C4: while evaluate_animation() goes through the Layers nothing is written
\* to the object; when it has returned, each property of the final blended
\* result has been written exactly once, with the value of the result, and no
\* other property has been written.
C4_WrittenOnceAfterTheLastLayer ==
  /\ eval.pc \in {"idle", "layers"} => object = InitialObject
  /\ eval.pc = "done" =>
       \A key \in ObjProps :
         IF eval.last_result.has_value /\ key \in DOMAIN eval.last_result.result
           THEN /\ object.written[key] = 1
                /\ object.value[key] = eval.last_result.result[key]
           ELSE /\ object.written[key] = 0
                /\ object.value[key] = InitialObject.value[key]

\* Two Layers have been blended, a property of the result has been written and
\* another property is not in the result.
C4_BlendedResultApplied ==
  /\ eval.pc = "done"
  /\ Len(layer_array["anim"]) >= 2
  /\ \A i \in 1..Len(layer_array["anim"]) :
       /\ AnimationLayer[layer_array["anim"][i]].influence > 0
       /\ evaluate_layer(InitialObject, LayerState, layer_array["anim"][i],
                         eval.output_index, eval.eval_time).result.has_value
  /\ \E key \in ObjProps : object.written[key] = 1
  /\ \E key \in ObjProps : object.written[key] = 0

\* C5: the result of blend_layer_results() has the keys of both results; a key
\* of only the previous result keeps its value, a key of only the current
\* result gets current * influence whatever the mix mode, and a key of both
\* gets the value of the mix mode: Override current * influence, Combine
\* previous + influence * (current - previous), Add previous + current *
\* influence, Subtract previous - current * influence, Multiply previous *
\* (current * influence).
C5_BlendIsTheReferenceBlend ==
  blend_call.blend.has_value =>
    LET prev == blend_call.last_result
        cur == blend_call.current_result
        infl == blend_call.current_layer.influence
        mode == blend_call.current_layer.mix_mode
        blend == blend_call.blend.result
    IN /\ DOMAIN blend = (DOMAIN prev) \cup (DOMAIN cur)
       /\ \A key \in (DOMAIN prev) \ (DOMAIN cur) : blend[key] = prev[key]
       /\ \A key \in (DOMAIN cur) \ (DOMAIN prev) :
            blend[key] = fmul(cur[key], infl)
       /\ \A key \in (DOMAIN cur) \cap (DOMAIN prev) :
            /\ mode = "OVERRIDE" => blend[key] = fmul(cur[key], infl)
            /\ mode = "COMBINE" =>
                 blend[key] = prev[key] + fmul(infl, cur[key] - prev[key])
            /\ mode = "ADD" => blend[key] = prev[key] + fmul(cur[key], infl)
            /\ mode = "SUBTRACT" =>
                 blend[key] = prev[key] - fmul(cur[key], infl)
            /\ mode = "MULTIPLY" =>
                 blend[key] = fmul(prev[key], fmul(cur[key], infl))

\* A Combine blend at full influence of results that differ in a shared key
\* and have each a key of their own.
C5_CombineOfOverlappingResults ==
  /\ blend_call.blend.has_value
  /\ blend_call.current_layer.mix_mode = "COMBINE"
  /\ blend_call.current_layer.influence = Unit
  /\ \E key \in (DOMAIN blend_call.last_result)
                  \cap (DOMAIN blend_call.current_result) :
       blend_call.last_result[key] # blend_call.current_result[key]
  /\ (DOMAIN blend_call.last_result) \ (DOMAIN blend_call.current_result) # {}
  /\ (DOMAIN blend_call.current_result) \ (DOMAIN blend_call.last_result) # {}

\* C16: as long as one Layer with influence has given a result, the
\* accumulated result of evaluate_animation() is the result of that Layer as
\* it is, whatever its influence and mix mode; the result of a later Layer is
\* blended onto the accumulated result with its influence and mix mode.
C16_FirstResultTakenVerbatim ==
  /\ [](eval.pc \in {"layers", "done"} =>
         LET layers == layer_array["anim"]
             result(i) == evaluate_layer(object, LayerState, layers[i],
                                         eval.output_index, eval.eval_time).result
             contributing == {i \in 1..eval.layer_index :
                                /\ AnimationLayer[layers[i]].influence > 0
                                /\ result(i).has_value}
         IN /\ contributing = {} => ~eval.last_result.has_value
            /\ \A i \in contributing :
                 contributing = {i} => eval.last_result = result(i))
  /\ [][eval.pc = "layers" /\ eval'.pc = "layers" =>
          LET layer == AnimationLayer[layer_array["anim"][eval'.layer_index]]
              result == evaluate_layer(object, LayerState,
                                       layer_array["anim"][eval'.layer_index],
                                       eval.output_index, eval.eval_time).result
          IN /\ eval.last_result.has_value
             /\ layer.influence > 0
             /\ result.has_value
             => eval'.last_result.result =
                  blend_layer_results(eval.last_result.result, result.result,
                                      layer)]_vars

\* The first Layer has an influence other than 1 and gave values, which are
\* the accumulated result, and a second Layer is still to be blended onto it.
C16_FirstLayerWithPartialInfluence ==
  /\ eval.pc = "layers"
  /\ eval.layer_index = 1
  /\ Len(layer_array["anim"]) >= 2
  /\ AnimationLayer[layer_array["anim"][1]].influence \notin {0, Unit}
  /\ eval.last_result.has_value
  /\ \E key \in DOMAIN eval.last_result.result :
       fmul(eval.last_result.result[key],
            AnimationLayer[layer_array["anim"][1]].influence)
         # eval.last_result.result[key]

\* C20: in evaluate_animation() a Layer whose evaluation gives no property
\* value does not become the accumulated result: there is no accumulated
\* result until a Layer with influence gives values, and while one Layer only
\* has given values the accumulated result is the result of that Layer as it
\* is.
C20_LayerWithoutValuesIsSkipped ==
  eval.pc \in {"layers", "done"} =>
    LET layers == layer_array["anim"]
        result(i) == evaluate_layer(object, LayerState, layers[i],
                                    eval.output_index, eval.eval_time).result
        yielding == {i \in 1..eval.layer_index :
                       /\ AnimationLayer[layers[i]].influence > 0
                       /\ result(i).has_value
                       /\ DOMAIN result(i).result # {}}
    IN /\ yielding = {} => ~eval.last_result.has_value
       /\ \A i \in yielding : yielding = {i} => eval.last_result = result(i)

\* C17: evaluate_layer() returns the result of the first Strip, in array
\* order, that contains the time, without consulting a later Strip, and no
\* result if no Strip contains the time.
C17_ResultOfFirstContainingStrip ==
  \A l \in allocated.layers : \A output_index \in KeyOutputs :
  \A eval_time \in EvalTimes :
    LET strips == AnimationLayer[l].strip_array
        containing == {i \in 1..Len(strips) :
                         contains_frame(AnimationStrip[strips[i]], eval_time)}
        result == evaluate_layer(object, LayerState, l, output_index,
                                 eval_time).result
    IN IF containing = {} THEN ~result.has_value
       ELSE result = evaluate_strip(object, LayerState, strips[Min(containing)],
                                    output_index, eval_time).result

\* C17, amended: evaluate_layer() returns the result of the first Strip, in
\* array order, that contains the time and has a result for the output (a
\* channel group of the output); Strips that contain the time without one
\* are passed over; without such a Strip there is no result.
C17_ResultOfFirstStripWithResult ==
  \A l \in allocated.layers : \A output_index \in KeyOutputs :
  \A eval_time \in EvalTimes :
    LET strips == AnimationLayer[l].strip_array
        strip_result(i) == evaluate_strip(object, LayerState, strips[i],
                                          output_index, eval_time).result
        available == {i \in 1..Len(strips) :
                        /\ contains_frame(AnimationStrip[strips[i]], eval_time)
                        /\ strip_result(i).has_value}
        result == evaluate_layer(object, LayerState, l, output_index,
                                 eval_time).result
    IN IF available = {} THEN ~result.has_value
       ELSE result = strip_result(Min(available))

\* evaluate_animation() has evaluated a Layer whose first Strip that contains
\* the time has no channel group of the output, and has the values of a later
\* Strip of that Layer.
C17_LaterStripGaveTheResult ==
  /\ eval.pc = "layers"
  /\ eval.layer_index = 1
  /\ AnimationLayer[layer_array["anim"][1]].influence > 0
  /\ LET strips == AnimationLayer[layer_array["anim"][1]].strip_array
         containing == {i \in 1..Len(strips) :
                          contains_frame(AnimationStrip[strips[i]],
                                         eval.eval_time)}
     IN /\ containing # {}
        /\ ~evaluate_strip(object, LayerState, strips[Min(containing)],
                           eval.output_index, eval.eval_time).result.has_value
  /\ eval.last_result.has_value
  /\ DOMAIN eval.last_result.result # {}

\* C18: contains_frame(t) is true exactly when frame_start <= t <= frame_end,
\* both ends included, so that an unbounded Strip contains every finite
\* frame; is_last_frame(t) is true exactly when t is frame_end.
C18_ContainsFrameAndLastFrame ==
  /\ strip_call.function = "contains_frame" =>
       /\ strip_call.returned <=>
            /\ strip_call.strip.frame_start <= strip_call.frame_time
            /\ strip_call.frame_time <= strip_call.strip.frame_end
       /\ strip_call.frame_time \in {strip_call.strip.frame_start,
                                     strip_call.strip.frame_end}
            => strip_call.returned
       /\ /\ strip_call.strip.frame_start = -infinity
          /\ strip_call.strip.frame_end = infinity
          => strip_call.returned
  /\ strip_call.function = "is_last_frame" =>
       (strip_call.returned <=>
          strip_call.frame_time = strip_call.strip.frame_end)

\* A Strip resized to [1.0, 2.0] was asked for contains_frame(2.0).
C18_LastFrameOfBoundedStripAsked ==
  /\ strip_call.function = "contains_frame"
  /\ strip_call.strip.frame_start = Unit
  /\ strip_call.strip.frame_end = 2 * Unit
  /\ strip_call.frame_time = 2 * Unit

\* C19: when threads call output_add() on one Animation at the same time,
\* the Outputs get distinct stable indices, and once the calls have returned
\* last_output_stable_index has advanced by one for each Output.
C19_ConcurrentAddsGetDistinctIndices ==
  \A a \in Anims :
    /\ \A i, j \in 1..Len(outputs[a]) :
         i # j => outputs[a][i].stable_index # outputs[a][j].stable_index
    /\ (\A t \in Threads : output_add_call[t].anim # a)
         => last_output_stable_index[a] = Len(outputs[a])

\* C21: a Layer with influence <= 0 is skipped: evaluate_animation() ends with
\* the result and the writes that it has on the Animation without that Layer,
\* wherever the Layer is, and whatever its mix mode and its influence <= 0.
C21_LayerWithoutInfluenceIsAsRemoved ==
  eval.pc = "done" =>
    \A l \in {p \in allocated.layers : AnimationLayer[p].influence <= 0} :
      LET run(ls) == evaluate_animation(InitialObject, ls, "anim",
                                        eval.output_index, eval.eval_time,
                                        eval.flush_to_original)
          removed == run(layer_remove(LayerState, "anim", l).st)
      IN /\ layer_remove(LayerState, "anim", l).ret
         /\ object = removed.object
         /\ eval.last_result = removed.eval.last_result
         /\ \A mix_mode \in MixModes : \A influence \in {0, -Unit} :
              LET set == [LayerState EXCEPT
                            !.AnimationLayer[l].mix_mode = mix_mode,
                            !.AnimationLayer[l].influence = influence]
              IN /\ run(set).object = removed.object
                 /\ run(set).eval.last_result = removed.eval.last_result

\* A Layer without influence lies under a Layer with influence, both have
\* values for the Output at the time, and the values of the upper Layer alone
\* have been written.
C21_LayerUnderneathWithoutInfluence ==
  /\ eval.pc = "done"
  /\ Len(layer_array["anim"]) = 2
  /\ AnimationLayer[layer_array["anim"][1]].influence <= 0
  /\ AnimationLayer[layer_array["anim"][2]].influence > 0
  /\ \A i \in 1..2 :
       LET r == evaluate_layer(InitialObject, LayerState, layer_array["anim"][i],
                               eval.output_index, eval.eval_time).result
       IN r.has_value /\ DOMAIN r.result # {}
  /\ \E key \in ObjProps : object.written[key] = 1

\* C22: evaluate_layer() decides with the time t itself whether a Strip
\* contains it (frame_start <= t <= frame_end) and evaluates the F-Curves of
\* the Strip at t - frame_offset; the time that evaluate_animation() was
\* called with is the time it has at its return.
C22_ContainedAtTimeEvaluatedAtOffset ==
  /\ [](\A l \in allocated.layers : \A output_index \in KeyOutputs :
        \A t \in EvalTimes :
          LET strips == AnimationLayer[l].strip_array
              strip(i) == AnimationStrip[strips[i]]
              r(i) == evaluate_keyframe_strip(object, LayerState, strips[i],
                        output_index, t - strip(i).frame_offset).result
              giving == {i \in DOMAIN strips :
                           /\ strip(i).frame_start <= t
                           /\ t <= strip(i).frame_end
                           /\ r(i).has_value}
              actual == evaluate_layer(object, LayerState, l, output_index, t)
          IN /\ actual.object = object
             /\ actual.result = IF giving = {} THEN nullopt
                                 ELSE r(Min(giving)))
  /\ [][\A output_index \in EvalOutputs : \A t \in EvalTimes :
        \A flush_to_original \in BOOLEAN :
          EvaluateAnimation(output_index, t, flush_to_original)
            => eval'.eval_time = t]_vars

\* The only Layer has a Strip with a frame offset that contains the time and
\* not the time less the offset, and the value that has been written is the
\* value of its F-Curve at the time less the offset, which is not the value
\* at the time.
C22_OffsetStripEvaluated ==
  /\ eval.pc = "done"
  /\ Len(layer_array["anim"]) = 1
  /\ LET layer == AnimationLayer[layer_array["anim"][1]]
         strip == AnimationStrip[layer.strip_array[1]]
         g == chans_for_out(LayerState, layer.strip_array[1], eval.output_index)
         fcurves == strip.channels_for_output_array[g].fcurve_array
     IN /\ layer.influence > 0
        /\ layer.strip_array # <<>>
        /\ strip.frame_offset # 0
        /\ contains_frame(strip, eval.eval_time)
        /\ ~contains_frame(strip, eval.eval_time - strip.frame_offset)
        /\ g # 0
        /\ \E c \in DOMAIN fcurves :
             LET key == <<fcurves[c].rna_path, fcurves[c].array_index>>
                 value == calculate_fcurve(fcurves[c], eval.eval_time
                                                         - strip.frame_offset)
             IN /\ is_fcurve_evaluatable(fcurves[c])
                /\ value # calculate_fcurve(fcurves[c], eval.eval_time)
                /\ object.written[key] = 1
                /\ object.value[key] = value

\* C23: a keyframe Strip has at most one channel group for an Output and a
\* channel group at most one F-Curve for a path and array index; and
\* keyframe_insert() for a path and array index that the channel group of
\* the Output does not have adds one F-Curve, for them, at the end of that
\* group and no channel group.
C23_OneGroupPerOutputOneCurvePerProperty ==
  \A s \in allocated.strips :
    LET channels == AnimationStrip[s].channels_for_output_array
    IN /\ \A g, h \in DOMAIN channels :
            channels[g].output_stable_index = channels[h].output_stable_index
              => g = h
       /\ \A g \in DOMAIN channels :
          \A c, d \in DOMAIN channels[g].fcurve_array :
            /\ channels[g].fcurve_array[c].rna_path
                 = channels[g].fcurve_array[d].rna_path
            /\ channels[g].fcurve_array[c].array_index
                 = channels[g].fcurve_array[d].array_index
            => c = d
       /\ \A out \in KeyOutputs : \A prop \in KeyProps :
            LET g == chans_for_out(LayerState, s, out)
                fcurves == channels[g].fcurve_array
                after(time, value, accepted) ==
                  keyframe_insert(LayerState, s, out, prop[1], prop[2], time,
                                  value, accepted)
                    .st.AnimationStrip[s].channels_for_output_array
                added(new) ==
                  /\ Len(new) = Len(channels)
                  /\ \A h \in DOMAIN channels : h # g => new[h] = channels[h]
                  /\ Len(new[g].fcurve_array) = Len(fcurves) + 1
                  /\ \A c \in DOMAIN fcurves :
                       new[g].fcurve_array[c] = fcurves[c]
                  /\ new[g].fcurve_array[Len(fcurves) + 1].rna_path = prop[1]
                  /\ new[g].fcurve_array[Len(fcurves) + 1].array_index = prop[2]
            IN /\ g # 0
               /\ \A c \in DOMAIN fcurves :
                    <<fcurves[c].rna_path, fcurves[c].array_index>> # prop
               => \A time \in KeyTimes : \A value \in KeyValues :
                  \A accepted \in BOOLEAN :
                    added(after(time, value, accepted))

\* A Strip has one channel group, which holds two F-Curves.
C23_TwoCurvesInTheOnlyGroup ==
  \E s \in allocated.strips :
    LET channels == AnimationStrip[s].channels_for_output_array
    IN /\ Len(channels) = 1
       /\ Len(channels[1].fcurve_array) = 2

\* C24: Animation::unassign_id() of an ID that is bound to an Output of the
\* Animation records the name that the Output has at that time in the
\* AnimData of the ID and clears the Animation of the ID; the recorded stable
\* index and the Outputs stay as they were.
C24_UnassignRecordsTheCurrentName ==
  \A a \in Anims : \A o \in Objects :
    LET i == output_for_stable_index(State, a, adt[o].output_stable_index)
        after == Animation_unassign_id(State, a, o)
    IN /\ adt[o].exists
       /\ adt[o].animation = a
       /\ i # NullOutput
       => /\ after.adt[o].output_name = outputs[a][i].name
          /\ after.adt[o].output_stable_index = adt[o].output_stable_index
          /\ after.adt[o].animation = NoAnim
          /\ after.outputs = outputs

\* The Output that an ID is bound to was renamed after the assignment, so the
\* name recorded for the ID is not the name of the Output, and
\* unassign_id() of the ID replaces it.
C24_RenamedWhileAssigned ==
  \E a \in Anims : \E o \in Objects :
    LET i == output_for_stable_index(State, a, adt[o].output_stable_index)
    IN /\ adt[o].exists
       /\ adt[o].animation = a
       /\ i # NullOutput
       /\ adt[o].output_name # outputs[a][i].name
       /\ outputs[a][i].name # EmptyName
       /\ Animation_unassign_id(State, a, o).adt[o].output_name
            # adt[o].output_name

\* C25: every Strip has frame_start <= frame_end, a frame_start that is not
\* +infinity and a frame_end that is not -infinity, after strip_add(),
\* Strip::resize() and writes to the properties frame_start and frame_end.
C25_FrameStartNotAfterFrameEnd ==
  /\ strip_call.strip.frame_start <= strip_call.strip.frame_end
  /\ strip_call.strip.frame_start < infinity
  /\ strip_call.strip.frame_end > -infinity

\* C26: layer_remove() and strip_remove() that return true free the element
\* with every Strip, channel group and F-Curve under it and nothing else, and
\* leave no array with a freed element; and at all times a live Strip is in
\* the array of one live Layer, once, and a live Layer in the array of one
\* Animation, once.
C26_RemoveFreesTheSubtreeOnly ==
  LET layer_owners(l) ==
        {<<a, i>> \in Anims \X (1..MaxLayers) :
           i <= Len(layer_array[a]) /\ layer_array[a][i] = l}
      strip_owners(s) ==
        {<<l, i>> \in allocated.layers \X (1..MaxStrips) :
           /\ i <= Len(AnimationLayer[l].strip_array)
           /\ AnimationLayer[l].strip_array[i] = s}
      strips_of(l) ==
        {AnimationLayer[l].strip_array[i] :
           i \in DOMAIN AnimationLayer[l].strip_array}
      freed_only(st, layers, strips) ==
        /\ st.freed.layers = freed.layers \cup layers
        /\ st.freed.strips = freed.strips \cup strips
        /\ st.allocated.layers = allocated.layers \ layers
        /\ st.allocated.strips = allocated.strips \ strips
        /\ \A s \in strips : st.AnimationStrip[s].channels_for_output_array = <<>>
        /\ \A l \in layers : st.AnimationLayer[l].strip_array = <<>>
        /\ \A s \in StripPtrs \ strips : st.AnimationStrip[s] = AnimationStrip[s]
        /\ \A a \in Anims : \A i \in DOMAIN st.layer_array[a] :
             st.layer_array[a][i] \in st.allocated.layers
        /\ \A l \in st.allocated.layers :
           \A i \in DOMAIN st.AnimationLayer[l].strip_array :
             st.AnimationLayer[l].strip_array[i] \in st.allocated.strips
  IN /\ \A l \in allocated.layers : Cardinality(layer_owners(l)) = 1
     /\ \A s \in allocated.strips : Cardinality(strip_owners(s)) = 1
     /\ \A l \in LayerPtrs \ allocated.layers : layer_owners(l) = {}
     /\ \A s \in StripPtrs \ allocated.strips : strip_owners(s) = {}
     /\ \A s \in freed.strips : AnimationStrip[s].channels_for_output_array = <<>>
     /\ \A l \in freed.layers : AnimationLayer[l].strip_array = <<>>
     /\ \A a \in Anims : \A l \in LayerPtrs :
          LET r == layer_remove(LayerState, a, l)
          IN r.ret =>
               /\ freed_only(r.st, {l}, strips_of(l))
               /\ \A k \in LayerPtrs \ {l} :
                    r.st.AnimationLayer[k] = AnimationLayer[k]
     /\ \A l \in allocated.layers : \A s \in StripPtrs :
          LET r == strip_remove(LayerState, l, s)
          IN r.ret =>
               /\ freed_only(r.st, {}, {s})
               /\ r.st.layer_array = layer_array
               /\ \A k \in LayerPtrs \ {l} :
                    r.st.AnimationLayer[k] = AnimationLayer[k]

\* A Layer was removed with its Strips and a Strip with a frame range and
\* keys from another Layer, and a Strip with F-Curves is still alive.
C26_LayerAndStripWithCurvesRemoved ==
  /\ freed.layers # {}
  /\ Cardinality(freed.strips) >= 2
  /\ \E s \in freed.strips : AnimationStrip[s].frame_start = 2
  /\ \E s \in allocated.strips :
       /\ AnimationStrip[s].channels_for_output_array # <<>>
       /\ \E l \in allocated.layers : \E i \in DOMAIN AnimationLayer[l].strip_array :
            AnimationLayer[l].strip_array[i] = s

C28_ActiveLayerIndexIsValid ==
  \A a \in Anims :
    /\ Len(layer_array[a]) >= 1 =>
         /\ 0 <= layer_active_index[a]
         /\ layer_active_index[a] < Len(layer_array[a])
    /\ LayerPtrs \ (allocated.layers \cup freed.layers) # {} =>
         LET p == MEM_new(LayerPtrs, allocated.layers \cup freed.layers)
             added == layer_add(LayerState, a, p, "layer")
         IN added.layer_array[a][added.layer_active_index[a] + 1] = p

\* C29: an ID that is bound to an Output of an Animation is, after
\* unassign_animation() and assign_animation() to the same Animation, bound
\* to that Output again, whether or not the Output was renamed in between and
\* whatever other Outputs the Animation has.
C29_ReassignedToTheSameOutput ==
  \A a \in Anims : \A o \in Objects :
    LET i == output_for_stable_index(State, a, adt[o].output_stable_index)
        unassigned == unassign_animation(State, o)
        again == assign_animation(unassigned, a, o)
    IN /\ adt[o].exists
       /\ adt[o].animation = a
       /\ i # NullOutput
       => /\ again.ret
          /\ again.st.adt[o].animation = a
          /\ again.st.adt[o].output_stable_index = adt[o].output_stable_index

\* C30: a call of Animation::assign_id(output, id) that returns true leaves
\* the ID with the stable index of an Output of that Animation, and the index
\* resolves in that Animation to the Output that was passed.
C30_BoundToAnOutputOfTheAnimation ==
  \A a, b \in Anims : \A i \in 1..Len(outputs[b]) : \A o \in Objects :
    LET r == Animation_assign_id_of(State, a, b, i, o)
    IN r.ret =>
         /\ r.st.adt[o].animation = a
         /\ r.st.adt[o].output_stable_index # 0
         /\ b = a
         /\ output_for_stable_index(r.st, a, r.st.adt[o].output_stable_index) = i

====
